---- MODULE Spec2Model ----
(***************************************************************************)
(* Thought-diary backend: the authentication flow (register, login,        *)
(* refresh, logout, me), the diary routes and the sentiment annotation     *)
(* client.  Strings are sequences of one-character strings; the two        *)
(* sentiment tags are single lexemes of such a sequence.                   *)
(***************************************************************************)
EXTENDS Integers, Sequences, FiniteSets, TLC

VARIABLES users, diaries, tokens, token_blacklist, now, ticks, next_jti,
          next_id, dialect, req, resp, analysis, registering, deleted,
          updating

vars == <<users, diaries, tokens, token_blacklist, now, ticks, next_jti,
          next_id, dialect, req, resp, analysis, registering, deleted,
          updating>>

\* deleted is a history of the run, kept by no code: the ids of the entries
\* that DELETE /diaries/{id} has removed.

(***************************************************************************)
(* Bounds of the model                                                     *)
(***************************************************************************)
MaxTokens == 4
MaxDiaries == 1
MaxTicks == 1
MaxGrowth == 3

(***************************************************************************)
(* Program constants (minutes)                                             *)
(***************************************************************************)
JWT_ACCESS_TOKEN_EXPIRES == 15
JWT_REFRESH_TOKEN_EXPIRES == 10080
MaxContentLen == 10000
MinPasswordLen == 8

(***************************************************************************)
(* Text primitives (Python str methods)                                    *)
(***************************************************************************)
Whitespace == {" ", "\n", "\t"}

RECURSIVE lstrip(_)
lstrip(s) == IF s # <<>> /\ Head(s) \in Whitespace THEN lstrip(Tail(s)) ELSE s

RECURSIVE rstrip(_)
rstrip(s) ==
  IF s # <<>> /\ s[Len(s)] \in Whitespace
    THEN rstrip(SubSeq(s, 1, Len(s) - 1))
    ELSE s

strip(s) == rstrip(lstrip(s))

startswith(s, p) == Len(s) >= Len(p) /\ SubSeq(s, 1, Len(p)) = p

endswith(s, p) == Len(s) >= Len(p) /\ SubSeq(s, Len(s) - Len(p) + 1, Len(s)) = p

UpperChars == {"A", "B", "X"}
LowerChars == {"a", "b", "x", "i", "o", "h", "t", "m", "l", "y"}
DigitChars == {"1", "2"}
SymbolChars == {"!", "@", "#", "$", "%", "^", "&", "*", "(", ")", "_", "+",
                "-", "=", "[", "]", "{", "}", "|", ";", ":", ",", ".", "<",
                ">", "?"}

lower_char(c) ==
  CASE c = "A" -> "a"
    [] c = "B" -> "b"
    [] c = "X" -> "x"
    [] OTHER -> c

lower(s) == [i \in 1..Len(s) |-> lower_char(s[i])]

count_presence(s, lexeme) ==
  IF \E i \in 1..Len(s) : s[i] = lexeme THEN 1 ELSE 0

RECURSIVE count(_, _)
count(s, lexeme) ==
  IF s = <<>> THEN 0
  ELSE (IF Head(s) = lexeme THEN 1 ELSE 0) + count(Tail(s), lexeme)

(***************************************************************************)
(* Sentiment annotation client                                             *)
(***************************************************************************)
PosTag == "<span class=\"positive\">"
NegTag == "<span class=\"negative\">"
EndTag == "</span>"
\* The backquote character (written U+0060, which the lexer rejects in a
\* string literal).
Backquote == "U+0060"
Fence == <<Backquote, Backquote, Backquote>>
FenceHtml == Fence \o <<"h", "t", "m", "l">>

NoneValue == "None"

\* What requests.post and response.json() can produce for one call.
\* kind: "timeout" | "connection_error" | "request_error" | "response";
\* for a response: the HTTP status, whether the body parses as JSON, and the
\* shape of the parsed document with the text of choices[0].message.content.
Reply(kind, status, json_ok, shape, text) ==
  [kind |-> kind, status |-> status, json_ok |-> json_ok, shape |-> shape,
   text |-> text]

raise_for_status_unchecked(status) == FALSE

raise_for_status(status) == status >= 400 /\ status < 600

\* result.get("choices", [{}])[0].get("message", {}).get("content", content):
\* the exception it raises ("" when none), whether the value is None, and
\* the value it yields otherwise.
extract_content(reply, content) ==
  CASE reply.shape = "not_object" ->
         [exc |-> "AttributeError", is_none |-> FALSE, value |-> <<>>]
    [] reply.shape = "no_choices" ->
         [exc |-> "", is_none |-> FALSE, value |-> content]
    [] reply.shape = "empty_choices" ->
         [exc |-> "IndexError", is_none |-> FALSE, value |-> <<>>]
    [] reply.shape = "no_message" ->
         [exc |-> "", is_none |-> FALSE, value |-> content]
    [] reply.shape = "no_content" ->
         [exc |-> "", is_none |-> FALSE, value |-> content]
    [] reply.shape = "null_content" ->
         [exc |-> "", is_none |-> TRUE, value |-> <<>>]
    [] reply.shape = "null_choices" ->
         [exc |-> "TypeError", is_none |-> FALSE, value |-> <<>>]
    [] reply.shape = "null_message" ->
         [exc |-> "AttributeError", is_none |-> FALSE, value |-> <<>>]
    [] OTHER -> [exc |-> "", is_none |-> FALSE, value |-> reply.text]

strip_code_fence(text) ==
  LET a == strip(text)
      b == IF startswith(a, FenceHtml) THEN SubSeq(a, 8, Len(a)) ELSE a
      c == IF startswith(b, Fence) THEN SubSeq(b, 4, Len(b)) ELSE b
      d == IF endswith(c, Fence) THEN SubSeq(c, 1, Len(c) - 3) ELSE c
  IN strip(d)

\* Body of the try block: the exception that leaves it ("" when none) and
\* the triple it returns.
try_body(content, reply) ==
  LET none == [exc |-> "", markup |-> <<>>, pos |-> 0, neg |-> 0]
  IN
  IF reply.kind = "timeout" THEN [none EXCEPT !.exc = "Timeout"]
  ELSE IF reply.kind = "connection_error"
    THEN [none EXCEPT !.exc = "ConnectionError"]
  ELSE IF reply.kind = "request_error"
    THEN [none EXCEPT !.exc = "RequestException"]
  ELSE IF raise_for_status(reply.status) THEN [none EXCEPT !.exc = "HTTPError"]
  ELSE IF ~reply.json_ok THEN [none EXCEPT !.exc = "JSONDecodeError"]
  ELSE
    LET got == extract_content(reply, content)
    IN
    IF got.exc # "" THEN [none EXCEPT !.exc = got.exc]
    ELSE IF got.is_none THEN [none EXCEPT !.exc = "AttributeError"]
    ELSE
      LET analyzed_content == strip_code_fence(got.value)
      IN [exc |-> "",
          markup |-> analyzed_content,
          pos |-> count(analyzed_content, PosTag),
          neg |-> count(analyzed_content, NegTag)]

\* The except clauses, in order; the last one catches every Exception.
HandledExceptions ==
  {"Timeout", "ConnectionError", "HTTPError", "RequestException",
   "JSONDecodeError", "KeyError", "IndexError", "ValueError",
   "AttributeError", "TypeError"}

analyze_sentiment(content, github_token, reply) ==
  IF github_token = NoneValue \/ github_token = ""
    THEN [raised |-> FALSE, markup |-> content, pos |-> 0, neg |-> 0]
  ELSE
    LET r == try_body(content, reply)
    IN
    IF r.exc = ""
      THEN [raised |-> FALSE, markup |-> r.markup, pos |-> r.pos, neg |-> r.neg]
    ELSE IF r.exc \in HandledExceptions
      THEN [raised |-> FALSE, markup |-> content, pos |-> 0, neg |-> 0]
    ELSE [raised |-> TRUE, markup |-> <<>>, pos |-> 0, neg |-> 0]

(***************************************************************************)
(* Validators                                                              *)
(***************************************************************************)
Letters == UpperChars \cup LowerChars
LocalChars == Letters \cup DigitChars \cup {".", "_", "%", "+", "-"}
DomainChars == Letters \cup DigitChars \cup {".", "-"}

\* re.match(r"^[a-zA-Z0-9._%+-]+@[a-zA-Z0-9.-]+\.[a-zA-Z]{2,}$", s); "$" also
\* matches before one trailing newline.
email_pattern_match(s) ==
  \E n \in {Len(s)} \cup {m \in {Len(s) - 1} : m >= 1 /\ s[Len(s)] = "\n"} :
    \E i \in 1..n, j \in 1..n :
      /\ s[i] = "@" /\ i > 1
      /\ \A k \in 1..(i - 1) : s[k] \in LocalChars
      /\ s[j] = "." /\ j > i + 1
      /\ \A k \in (i + 1)..(j - 1) : s[k] \in DomainChars
      /\ n - j >= 2
      /\ \A k \in (j + 1)..n : s[k] \in Letters

index_of(s, c) == CHOOSE i \in 1..Len(s) : s[i] = c /\ \A k \in 1..(i - 1) : s[k] # c

validate_email(email) ==
  IF email = <<>> THEN FALSE
  ELSE IF ~email_pattern_match(email) THEN FALSE
  ELSE IF \E i \in 1..(Len(email) - 1) : email[i] = "." /\ email[i + 1] = "."
    THEN FALSE
  ELSE
    LET at == index_of(email, "@")
        local == SubSeq(email, 1, at - 1)
        domain == SubSeq(email, at + 1, Len(email))
    IN
    IF Head(local) = "." \/ local[Len(local)] = "." THEN FALSE
    ELSE IF Head(domain) = "." \/ domain[Len(domain)] = "." THEN FALSE
    ELSE TRUE

normalize_email_keep_case(email) == IF email = <<>> THEN <<>> ELSE strip(email)

normalize_email(email) == IF email = <<>> THEN <<>> ELSE lower(strip(email))

\* fields.Email of the two schemas: one "@" between a non-empty user part and
\* a dotted host name, and no whitespace anywhere in the value.
fields_Email(value) ==
  /\ \A i \in 1..Len(value) : value[i] \notin Whitespace
  /\ Cardinality({i \in 1..Len(value) : value[i] = "@"}) = 1
  /\ \E i \in 2..(Len(value) - 3) :
       /\ value[i] = "@"
       /\ \E j \in (i + 2)..(Len(value) - 1) : value[j] = "."

has_char(s, chars) == \E i \in 1..Len(s) : s[i] \in chars

validate_password_digit_last(password) ==
  IF password = <<>> THEN [ok |-> FALSE, msg |-> "Password is required"]
  ELSE IF Len(password) < MinPasswordLen
    THEN [ok |-> FALSE, msg |-> "Password must be at least 8 characters long"]
  ELSE IF ~has_char(password, UpperChars)
    THEN [ok |-> FALSE,
          msg |-> "Password must contain at least one uppercase letter"]
  ELSE IF ~has_char(password, LowerChars)
    THEN [ok |-> FALSE,
          msg |-> "Password must contain at least one lowercase letter"]
  ELSE IF ~has_char(password, SymbolChars)
    THEN [ok |-> FALSE,
          msg |-> "Password must contain at least one special character"]
  ELSE IF ~has_char(password, DigitChars)
    THEN [ok |-> FALSE, msg |-> "Password must contain at least one number"]
  ELSE [ok |-> TRUE, msg |-> ""]

validate_password(password) ==
  IF password = <<>> THEN [ok |-> FALSE, msg |-> "Password is required"]
  ELSE IF Len(password) < MinPasswordLen
    THEN [ok |-> FALSE, msg |-> "Password must be at least 8 characters long"]
  ELSE IF ~has_char(password, UpperChars)
    THEN [ok |-> FALSE,
          msg |-> "Password must contain at least one uppercase letter"]
  ELSE IF ~has_char(password, LowerChars)
    THEN [ok |-> FALSE,
          msg |-> "Password must contain at least one lowercase letter"]
  ELSE IF ~has_char(password, DigitChars)
    THEN [ok |-> FALSE, msg |-> "Password must contain at least one number"]
  ELSE IF ~has_char(password, SymbolChars)
    THEN [ok |-> FALSE,
          msg |-> "Password must contain at least one special character"]
  ELSE [ok |-> TRUE, msg |-> ""]

\* RegisterSchema.load: field validation, then the post_load normalisation.
RegisterSchema_load(email, password) ==
  IF fields_Email(email) /\ validate_email(email) /\ validate_password(password).ok
    THEN [ok |-> TRUE, email |-> normalize_email(email), password |-> password]
    ELSE [ok |-> FALSE, email |-> <<>>, password |-> <<>>]

LoginSchema_load(email, password) ==
  IF fields_Email(email)
    THEN [ok |-> TRUE, email |-> email, password |-> password]
    ELSE [ok |-> FALSE, email |-> <<>>, password |-> <<>>]

(***************************************************************************)
(* User model                                                              *)
(***************************************************************************)
Salts == {1, 2}

\* bcrypt.hashpw(password, salt): the salt is stored alongside the digest.
set_password(password, salt) == [salt |-> salt, digest |-> password]

\* A stored value that is no bcrypt hash (a hash of another scheme, a
\* truncated value): bcrypt.checkpw raises ValueError on it.
MalformedHash == [salt |-> 0, digest |-> <<"i", "n", "v", "a", "l", "i", "d">>]

\* An empty stored value: check_password answers False before bcrypt is
\* asked.
EmptyHash == [salt |-> 0, digest |-> <<>>]

check_password_raises(user) ==
  /\ user.password_hash # EmptyHash
  /\ user.password_hash.salt \notin Salts

\* bcrypt.checkpw recomputes with the salt embedded in the hash.
check_password(user, password) ==
  set_password(password, user.password_hash.salt) = user.password_hash

SetMax(S) == CHOOSE m \in S : \A x \in S : x <= m

users_by_email(email) == {u \in users : u.email = email}

next_user_id == IF users = {} THEN 1 ELSE SetMax({u.id : u \in users}) + 1

(***************************************************************************)
(* Tokens                                                                  *)
(***************************************************************************)
NoToken == [jti |-> 0, type |-> "", sub |-> 0, exp |-> 0]

NoCred == [kind |-> "none", token |-> NoToken, sig_ok |-> FALSE]
GarbageCred == [kind |-> "garbage", token |-> NoToken, sig_ok |-> FALSE]

\* What a client can put in the Authorization header: nothing, a string that
\* is not a JWT, a token this application issued, or the claims of such a
\* token under a signature made without the secret key.
Credentials ==
  {NoCred, GarbageCred}
    \cup {[kind |-> "jwt", token |-> t, sig_ok |-> b] : t \in tokens, b \in BOOLEAN}

create_access_token(identity, jti) ==
  [jti |-> jti, type |-> "access", sub |-> identity,
   exp |-> now + JWT_ACCESS_TOKEN_EXPIRES]

create_refresh_token(identity, jti) ==
  [jti |-> jti, type |-> "refresh", sub |-> identity,
   exp |-> now + JWT_REFRESH_TOKEN_EXPIRES]

check_if_token_revoked_never(jwt_payload) == FALSE

check_if_token_revoked(jwt_payload) == jwt_payload.jti \in token_blacklist

jwt_required_any_type(cred, refresh) ==
  IF cred.kind = "none" THEN "MISSING_TOKEN"
  ELSE IF cred.kind = "garbage" \/ ~cred.sig_ok THEN "INVALID_TOKEN"
  ELSE IF cred.token.exp <= now THEN "TOKEN_EXPIRED"
  ELSE IF cred.token.jti \in token_blacklist THEN "TOKEN_REVOKED"
  ELSE ""

jwt_required_revocation_first(cred, refresh) ==
  IF cred.kind = "none" THEN "MISSING_TOKEN"
  ELSE IF cred.kind = "garbage" \/ ~cred.sig_ok THEN "INVALID_TOKEN"
  ELSE IF cred.token.jti \in token_blacklist THEN "TOKEN_REVOKED"
  ELSE IF cred.token.exp <= now THEN "TOKEN_EXPIRED"
  ELSE IF cred.token.type # (IF refresh THEN "refresh" ELSE "access")
    THEN "INVALID_TOKEN"
  ELSE ""

\* jwt_required(refresh=...) with the callbacks of configure_jwt_callbacks:
\* the code of the 401 it answers, or "" when the view function runs.
jwt_required(cred, refresh) ==
  IF cred.kind = "none" THEN "MISSING_TOKEN"
  ELSE IF cred.kind = "garbage" \/ ~cred.sig_ok THEN "INVALID_TOKEN"
  ELSE IF cred.token.exp <= now THEN "TOKEN_EXPIRED"
  ELSE IF cred.token.type # (IF refresh THEN "refresh" ELSE "access")
    THEN "INVALID_TOKEN"
  ELSE IF check_if_token_revoked(cred.token) THEN "TOKEN_REVOKED"
  ELSE ""

get_jwt_identity(cred) == cred.token.sub

(***************************************************************************)
(* Requests, responses and the inputs the clients draw from                *)
(***************************************************************************)
Str_a_x_io == <<"a", "@", "x", ".", "i", "o">>
Str_A_x_io == <<"A", "@", "x", ".", "i", "o">>
Str_sp_a_x_io == <<" ", "a", "@", "x", ".", "i", "o">>
Str_b_x_io == <<"b", "@", "x", ".", "i", "o">>

Emails == {Str_a_x_io, Str_A_x_io, Str_sp_a_x_io, Str_b_x_io}

StrongPassword == <<"A", "a", "1", "!", "a", "a", "a", "a">>
WeakPassword == <<"a", "a", "1", "!", "a", "a", "a", "a">>

Passwords == {StrongPassword, WeakPassword}

NoListing == [items |-> <<>>, page |-> 0, per_page |-> 0, total |-> 0, pages |-> 0]
NoStats ==
  [total_entries |-> 0, positive_entries |-> 0, negative_entries |-> 0,
   neutral_entries |-> 0]

\* A query-string argument: absent, an integer, or text that is no integer.
Absent == [kind |-> "absent", value |-> 0]
TextArg == [kind |-> "text", value |-> 0]
IntArg(n) == [kind |-> "int", value |-> n]

\* request.args.get(name, default, type=int): the default when the argument
\* is absent or does not convert.
args_get(arg, default) == IF arg.kind = "int" THEN arg.value ELSE default

Request(route, cred) ==
  [route |-> route, cred |-> cred, diary_id |-> 0, email |-> <<>>,
   password |-> <<>>, content |-> <<>>, page |-> Absent, per_page |-> Absent,
   positive_count |-> 0, negative_count |-> 0, extra |-> {}]

Response(status, code) ==
  [status |-> status, code |-> code, minted |-> {}, entry |-> {},
   listing |-> NoListing, stats |-> NoStats, sentiment |-> "",
   returned |-> <<>>]

NoRequest == Request("", NoCred)
NoResponse == Response(0, "")

NoReply == [kind |-> "", status |-> 0, json_ok |-> FALSE, shape |-> "", text |-> <<>>]
NoAnalysis ==
  [content |-> <<>>, github_token |-> NoneValue, reply |-> NoReply,
   result |-> [raised |-> FALSE, markup |-> <<>>, pos |-> 0, neg |-> 0]]

Unauthorized(code) == Response(401, code)

\* The workers that serve requests side by side, and the registration each
\* has in hand: none, one that has passed the lookup and waits to commit, or
\* one that a commit has answered.
Workers == {1, 2}
NoRegistration ==
  [pc |-> "idle", email |-> <<>>, password |-> <<>>, resp |-> NoResponse]
NoRegistrations == [w \in Workers |-> NoRegistration]

\* The update each worker has in hand: none, or one whose handler has loaded
\* the entry into its session and waits for the annotation. loaded is the
\* entry as the session read it.
NoEntry ==
  [id |-> 0, user_id |-> 0, content |-> <<>>, analyzed_content |-> <<>>,
   positive_count |-> 0, negative_count |-> 0, created_at |-> 0,
   updated_at |-> 0]
NoUpdate ==
  [pc |-> "idle", cred |-> NoCred, content |-> <<>>, loaded |-> NoEntry]
NoUpdates == [w \in Workers |-> NoUpdate]

(***************************************************************************)
(* Authentication routes                                                   *)
(***************************************************************************)
\* Two requests racing past the pre-check end in the unique constraint of
\* users.email, which the handler answers with EMAIL_EXISTS as well: the
\* handler is one step.
register_add_before_check(email, password) ==
  LET data == RegisterSchema_load(email, password)
      normalized == normalize_email(data.email)
  IN
  /\ UNCHANGED <<registering, deleted, updating>>
  /\ req' = [Request("register", NoCred) EXCEPT !.email = email,
                                                 !.password = password]
  /\ IF ~data.ok
       THEN /\ resp' = Response(400, "VALIDATION_ERROR")
            /\ UNCHANGED users
     ELSE \E salt \in Salts :
            /\ users' = users \cup
                 {[id |-> next_user_id, email |-> normalized,
                   password_hash |-> set_password(data.password, salt)]}
            /\ resp' = IF users_by_email(normalized) # {}
                         THEN Response(400, "EMAIL_EXISTS")
                         ELSE Response(201, "")
  /\ UNCHANGED <<diaries, tokens, token_blacklist, now, ticks, next_jti,
                 next_id, dialect, analysis>>

register(email, password) ==
  LET data == RegisterSchema_load(email, password)
      normalized == normalize_email(data.email)
  IN
  /\ UNCHANGED <<registering, deleted, updating>>
  /\ req' = [Request("register", NoCred) EXCEPT !.email = email,
                                                 !.password = password]
  /\ IF ~data.ok
       THEN /\ resp' = Response(400, "VALIDATION_ERROR")
            /\ UNCHANGED users
     ELSE IF users_by_email(normalized) # {}
       THEN /\ resp' = Response(400, "EMAIL_EXISTS")
            /\ UNCHANGED users
     ELSE \E salt \in Salts :
            /\ users' = users \cup
                 {[id |-> next_user_id, email |-> normalized,
                   password_hash |-> set_password(data.password, salt)]}
            /\ resp' = Response(201, "")
  /\ UNCHANGED <<diaries, tokens, token_blacklist, now, ticks, next_jti,
                 next_id, dialect, analysis>>

\* register up to the lookup: the handler of worker w validates the payload
\* and, finding no user under the email, goes on to build the record.
register_begin(w, email, password) ==
  LET data == RegisterSchema_load(email, password)
      normalized == normalize_email(data.email)
  IN
  /\ registering[w].pc # "checked"
  /\ req' = [Request("register", NoCred) EXCEPT !.email = email,
                                                 !.password = password]
  /\ IF ~data.ok
       THEN /\ resp' = Response(400, "VALIDATION_ERROR")
            /\ registering' = [registering EXCEPT ![w] =
                 [NoRegistration EXCEPT !.resp = resp']]
     ELSE IF users_by_email(normalized) # {}
       THEN /\ resp' = Response(400, "EMAIL_EXISTS")
            /\ registering' = [registering EXCEPT ![w] =
                 [NoRegistration EXCEPT !.resp = resp']]
     ELSE /\ resp' = NoResponse
          /\ registering' = [registering EXCEPT ![w] =
               [pc |-> "checked", email |-> normalized,
                password |-> data.password, resp |-> NoResponse]]
  /\ UNCHANGED <<users, diaries, tokens, token_blacklist, now, ticks, next_jti,
                 next_id, dialect, analysis, deleted, updating>>

register_commit_unhandled(w) ==
  LET r == registering[w]
  IN
  /\ r.pc = "checked"
  /\ req' = [Request("register", NoCred) EXCEPT !.email = r.email,
                                                 !.password = r.password]
  /\ IF users_by_email(r.email) # {}
       THEN /\ resp' = Response(500, "REGISTRATION_ERROR")
            /\ UNCHANGED users
       ELSE \E salt \in Salts :
              /\ users' = users \cup
                   {[id |-> next_user_id, email |-> r.email,
                     password_hash |-> set_password(r.password, salt)]}
              /\ resp' = Response(201, "")
  /\ registering' = [registering EXCEPT ![w] = [r EXCEPT !.pc = "done",
                                                         !.resp = resp']]
  /\ UNCHANGED <<diaries, tokens, token_blacklist, now, ticks, next_jti,
                 next_id, dialect, analysis, deleted, updating>>

\* register from db.session.add to the return: the INSERT meets the unique
\* index of users.email; IntegrityError is answered, after a rollback, with
\* EMAIL_EXISTS.
register_commit(w) ==
  LET r == registering[w]
  IN
  /\ r.pc = "checked"
  /\ req' = [Request("register", NoCred) EXCEPT !.email = r.email,
                                                 !.password = r.password]
  /\ IF users_by_email(r.email) # {}
       THEN /\ resp' = Response(400, "EMAIL_EXISTS")
            /\ UNCHANGED users
       ELSE \E salt \in Salts :
              /\ users' = users \cup
                   {[id |-> next_user_id, email |-> r.email,
                     password_hash |-> set_password(r.password, salt)]}
              /\ resp' = Response(201, "")
  /\ registering' = [registering EXCEPT ![w] = [r EXCEPT !.pc = "done",
                                                         !.resp = resp']]
  /\ UNCHANGED <<diaries, tokens, token_blacklist, now, ticks, next_jti,
                 next_id, dialect, analysis, deleted, updating>>

login_user_enumeration(email, password) ==
  LET data == LoginSchema_load(email, password)
      normalized == normalize_email(data.email)
      found == users_by_email(normalized)
  IN
  /\ UNCHANGED <<registering, deleted, updating>>
  /\ req' = [Request("login", NoCred) EXCEPT !.email = email,
                                              !.password = password]
  /\ IF ~data.ok
       THEN /\ resp' = Response(400, "VALIDATION_ERROR")
            /\ UNCHANGED <<tokens, next_jti>>
     ELSE IF found = {}
       THEN /\ resp' = Response(401, "USER_NOT_FOUND")
            /\ UNCHANGED <<tokens, next_jti>>
     ELSE IF \E u \in found : check_password_raises(u)
       THEN /\ resp' = Response(500, "INTERNAL_SERVER_ERROR")
            /\ UNCHANGED <<tokens, next_jti>>
     ELSE IF \A u \in found : ~check_password(u, data.password)
       THEN /\ resp' = Response(401, "INVALID_CREDENTIALS")
            /\ UNCHANGED <<tokens, next_jti>>
     ELSE
       /\ next_jti + 1 <= MaxTokens
       /\ \E user \in found :
            LET access_token == create_access_token(user.id, next_jti)
                refresh_token == create_refresh_token(user.id, next_jti + 1)
            IN /\ tokens' = tokens \cup {access_token, refresh_token}
               /\ resp' = [Response(200, "") EXCEPT
                             !.minted = {access_token, refresh_token}]
       /\ next_jti' = next_jti + 2
  /\ UNCHANGED <<users, diaries, token_blacklist, now, ticks, next_id, dialect,
                 analysis>>

login(email, password) ==
  LET data == LoginSchema_load(email, password)
      normalized == normalize_email(data.email)
      found == users_by_email(normalized)
  IN
  /\ UNCHANGED <<registering, deleted, updating>>
  /\ req' = [Request("login", NoCred) EXCEPT !.email = email,
                                              !.password = password]
  /\ IF ~data.ok
       THEN /\ resp' = Response(400, "VALIDATION_ERROR")
            /\ UNCHANGED <<tokens, next_jti>>
     ELSE IF found = {}
       THEN /\ resp' = Response(401, "INVALID_CREDENTIALS")
            /\ UNCHANGED <<tokens, next_jti>>
     ELSE IF \E u \in found : check_password_raises(u)
       THEN /\ resp' = Response(500, "INTERNAL_SERVER_ERROR")
            /\ UNCHANGED <<tokens, next_jti>>
     ELSE IF \A u \in found : ~check_password(u, data.password)
       THEN /\ resp' = Response(401, "INVALID_CREDENTIALS")
            /\ UNCHANGED <<tokens, next_jti>>
     ELSE
       /\ next_jti + 1 <= MaxTokens
       /\ \E user \in found :
            LET access_token == create_access_token(user.id, next_jti)
                refresh_token == create_refresh_token(user.id, next_jti + 1)
            IN /\ tokens' = tokens \cup {access_token, refresh_token}
               /\ resp' = [Response(200, "") EXCEPT
                             !.minted = {access_token, refresh_token}]
       /\ next_jti' = next_jti + 2
  /\ UNCHANGED <<users, diaries, token_blacklist, now, ticks, next_id, dialect,
                 analysis>>

refresh_revoking(cred) ==
  LET denied == jwt_required(cred, TRUE)
  IN
  /\ UNCHANGED <<registering, deleted, updating>>
  /\ req' = Request("refresh", cred)
  /\ IF denied # ""
       THEN /\ resp' = Unauthorized(denied)
            /\ UNCHANGED <<tokens, next_jti, token_blacklist>>
     ELSE
       /\ next_jti <= MaxTokens
       /\ LET new_access_token ==
                create_access_token(get_jwt_identity(cred), next_jti)
          IN /\ tokens' = tokens \cup {new_access_token}
             /\ resp' = [Response(200, "") EXCEPT !.minted = {new_access_token}]
       /\ next_jti' = next_jti + 1
       /\ token_blacklist' = token_blacklist \cup {cred.token.jti}
  /\ UNCHANGED <<users, diaries, now, ticks, next_id, dialect, analysis>>

refresh(cred) ==
  LET denied == jwt_required(cred, TRUE)
  IN
  /\ UNCHANGED <<registering, deleted, updating>>
  /\ req' = Request("refresh", cred)
  /\ IF denied # ""
       THEN /\ resp' = Unauthorized(denied)
            /\ UNCHANGED <<tokens, next_jti>>
     ELSE
       /\ next_jti <= MaxTokens
       /\ LET new_access_token ==
                create_access_token(get_jwt_identity(cred), next_jti)
          IN /\ tokens' = tokens \cup {new_access_token}
             /\ resp' = [Response(200, "") EXCEPT !.minted = {new_access_token}]
       /\ next_jti' = next_jti + 1
  /\ UNCHANGED <<users, diaries, token_blacklist, now, ticks, next_id, dialect,
                 analysis>>

logout_all_of_user(cred) ==
  LET denied == jwt_required(cred, FALSE)
  IN
  /\ UNCHANGED <<registering, deleted, updating>>
  /\ req' = Request("logout", cred)
  /\ IF denied # ""
       THEN /\ resp' = Unauthorized(denied)
            /\ UNCHANGED token_blacklist
     ELSE /\ token_blacklist' =
               token_blacklist \cup
                 {t.jti : t \in {x \in tokens : x.sub = cred.token.sub}}
          /\ resp' = Response(200, "")
  /\ UNCHANGED <<users, diaries, tokens, now, ticks, next_jti, next_id, dialect,
                 analysis>>

logout(cred) ==
  LET denied == jwt_required(cred, FALSE)
  IN
  /\ UNCHANGED <<registering, deleted, updating>>
  /\ req' = Request("logout", cred)
  /\ IF denied # ""
       THEN /\ resp' = Unauthorized(denied)
            /\ UNCHANGED token_blacklist
     ELSE /\ token_blacklist' = token_blacklist \cup {cred.token.jti}
          /\ resp' = Response(200, "")
  /\ UNCHANGED <<users, diaries, tokens, now, ticks, next_jti, next_id, dialect,
                 analysis>>

get_current_user(cred) ==
  LET denied == jwt_required(cred, FALSE)
      current_user_id == get_jwt_identity(cred)
  IN
  /\ UNCHANGED <<registering, deleted, updating>>
  /\ req' = Request("me", cred)
  /\ resp' = IF denied # "" THEN Unauthorized(denied)
             ELSE IF {u \in users : u.id = current_user_id} = {}
               THEN Response(404, "USER_NOT_FOUND")
             ELSE Response(200, "")
  /\ UNCHANGED <<users, diaries, tokens, token_blacklist, now, ticks, next_jti,
                 next_id, dialect, analysis>>

(***************************************************************************)
(* Diary routes                                                            *)
(***************************************************************************)
Contents == {<<"x">>, <<" ", PosTag, "x", EndTag>>, <<" ">>}

\* The annotation service marks the text it was sent, or answers something
\* else.
Markups(content) == {<<NegTag>> \o content \o <<EndTag, NegTag, "y", EndTag>>}

ConfiguredToken == "test-token-123"
GithubTokens == {NoneValue, "", ConfiguredToken}

RouteReplies(content) ==
  {Reply("timeout", 0, FALSE, "", <<>>),
   Reply("response", 200, TRUE, "no_choices", <<>>)}
    \cup {Reply("response", 200, TRUE, "content", m) : m \in Markups(content)}

DiarySchema_load_trimmed(content) ==
  /\ Len(strip(content)) >= 1
  /\ Len(strip(content)) <= MaxContentLen

\* DiaryCreateSchema / DiaryUpdateSchema: Length(min=1, max=10000), then the
\* whitespace check of validate_content.
DiarySchema_load(content) ==
  /\ Len(content) >= 1
  /\ Len(content) <= MaxContentLen
  /\ strip(content) # <<>>

\* ThoughtDiary.validate_content: the model's own check, which no route
\* calls.
validate_content(content) ==
  IF content = <<>> THEN FALSE
  ELSE IF strip(content) = <<>> THEN FALSE
  ELSE IF Len(content) > MaxContentLen THEN FALSE
  ELSE TRUE

diary_by_id(diary_id) == {d \in diaries : d.id = diary_id}

new_diary_id_max_plus_one ==
  IF diaries = {} THEN 1 ELSE SetMax({d.id : d \in diaries}) + 1

\* Integer primary key: SQLite hands out max(rowid) + 1, PostgreSQL the next
\* value of the table's sequence.
new_diary_id ==
  IF dialect = "sqlite"
    THEN (IF diaries = {} THEN 1 ELSE SetMax({d.id : d \in diaries}) + 1)
    ELSE next_id

DiaryIds == 1..(MaxDiaries + 1)

\* The call of analyze_sentiment made by a route: no request is sent, and no
\* reply received, when the credential is absent.
Analysis(content, github_token, reply) ==
  [content |-> content, github_token |-> github_token, reply |-> reply,
   result |-> analyze_sentiment(content, github_token, reply)]

RouteAnalyses(content) ==
  {Analysis(content, ConfiguredToken, r) : r \in RouteReplies(content)}
    \cup {Analysis(content, NoneValue, NoReply)}

\* thought_diaries.user_id references users.id. PostgreSQL checks the
\* reference when the INSERT is sent, after the sequence has handed out the
\* id; SQLite checks it only under PRAGMA foreign_keys=ON, which nothing in
\* the application sets.
foreign_keys_enforced == dialect = "postgresql"

\* The fields a request body can carry besides content, as <<name, value>>
\* pairs. A schema loads with marshmallow's default for unknown fields, which
\* raises ValidationError when the body has a field the schema does not
\* declare.
NoExtra == {}
ExtraFields ==
  {NoExtra, {<<"user_id", 1>>}, {<<"user_id", 2>>}, {<<"positive_count", 3>>}}

unknown_raises(extra) == extra # {}

create_diary_owner_from_body(cred, content, extra, a) ==
  LET denied == jwt_required(cred, FALSE)
      current_user_id == get_jwt_identity(cred)
  IN
  /\ UNCHANGED <<registering, deleted, updating>>
  /\ req' = [Request("create_diary", cred) EXCEPT !.content = content,
                                                   !.extra = extra]
  /\ IF denied # ""
       THEN /\ resp' = Unauthorized(denied)
            /\ UNCHANGED <<diaries, next_id, analysis>>
     ELSE IF ~DiarySchema_load(content)
       THEN /\ resp' = Response(400, "VALIDATION_ERROR")
            /\ UNCHANGED <<diaries, next_id, analysis>>
     ELSE
       /\ a.content = content
       /\   /\ analysis' = a
            /\ IF a.result.raised
                 THEN /\ resp' = Response(500, "INTERNAL_SERVER_ERROR")
                      /\ UNCHANGED <<diaries, next_id>>
               ELSE IF /\ foreign_keys_enforced
                       /\ \A u \in users : u.id # current_user_id
                 THEN /\ resp' = Response(500, "INTERNAL_SERVER_ERROR")
                      /\ next_id' = next_id + 1
                      /\ UNCHANGED diaries
                 ELSE LET diary == [id |-> new_diary_id,
                                    user_id |-> IF \E f \in extra : f[1] = "user_id"
                                                 THEN (CHOOSE f \in extra : f[1] = "user_id")[2]
                                                 ELSE current_user_id,
                                    content |-> content,
                                    analyzed_content |-> a.result.markup,
                                    positive_count |-> a.result.pos,
                                    negative_count |-> a.result.neg,
                                    created_at |-> now,
                                    updated_at |-> now]
                      IN /\ diaries' = diaries \cup {diary}
                         /\ next_id' = next_id + 1
                         /\ resp' = [Response(201, "") EXCEPT !.entry = {diary}]
  /\ UNCHANGED <<users, tokens, token_blacklist, now, ticks, next_jti, dialect>>

create_diary(cred, content, extra, a) ==
  LET denied == jwt_required(cred, FALSE)
      current_user_id == get_jwt_identity(cred)
  IN
  /\ UNCHANGED <<registering, deleted, updating>>
  /\ req' = [Request("create_diary", cred) EXCEPT !.content = content,
                                                   !.extra = extra]
  /\ IF denied # ""
       THEN /\ resp' = Unauthorized(denied)
            /\ UNCHANGED <<diaries, next_id, analysis>>
     ELSE IF unknown_raises(extra) \/ ~DiarySchema_load(content)
       THEN /\ resp' = Response(400, "VALIDATION_ERROR")
            /\ UNCHANGED <<diaries, next_id, analysis>>
     ELSE
       /\ a.content = content
       /\   /\ analysis' = a
            /\ IF a.result.raised
                 THEN /\ resp' = Response(500, "INTERNAL_SERVER_ERROR")
                      /\ UNCHANGED <<diaries, next_id>>
               ELSE IF /\ foreign_keys_enforced
                       /\ \A u \in users : u.id # current_user_id
                 THEN /\ resp' = Response(500, "INTERNAL_SERVER_ERROR")
                      /\ next_id' = next_id + 1
                      /\ UNCHANGED diaries
                 ELSE LET diary == [id |-> new_diary_id,
                                    user_id |-> current_user_id,
                                    content |-> content,
                                    analyzed_content |-> a.result.markup,
                                    positive_count |-> a.result.pos,
                                    negative_count |-> a.result.neg,
                                    created_at |-> now,
                                    updated_at |-> now]
                      IN /\ diaries' = diaries \cup {diary}
                         /\ next_id' = next_id + 1
                         /\ resp' = [Response(201, "") EXCEPT !.entry = {diary}]
  /\ UNCHANGED <<users, tokens, token_blacklist, now, ticks, next_jti, dialect>>

get_diary_owner_first(cred, diary_id) ==
  LET denied == jwt_required(cred, FALSE)
      current_user_id == get_jwt_identity(cred)
      found == {d \in diary_by_id(diary_id) : d.user_id = current_user_id}
  IN
  /\ UNCHANGED <<registering, deleted, updating>>
  /\ req' = [Request("get_diary", cred) EXCEPT !.diary_id = diary_id]
  /\ resp' = IF denied # "" THEN Unauthorized(denied)
             ELSE IF found = {} THEN Response(403, "FORBIDDEN")
             ELSE [Response(200, "") EXCEPT !.entry = found]
  /\ UNCHANGED <<users, diaries, tokens, token_blacklist, now, ticks, next_jti,
                 next_id, dialect, analysis>>

get_diary(cred, diary_id) ==
  LET denied == jwt_required(cred, FALSE)
      current_user_id == get_jwt_identity(cred)
      found == diary_by_id(diary_id)
  IN
  /\ UNCHANGED <<registering, deleted, updating>>
  /\ req' = [Request("get_diary", cred) EXCEPT !.diary_id = diary_id]
  /\ resp' = IF denied # "" THEN Unauthorized(denied)
             ELSE IF found = {} THEN Response(404, "DIARY_NOT_FOUND")
             ELSE IF \E d \in found : d.user_id # current_user_id
               THEN Response(403, "FORBIDDEN")
             ELSE [Response(200, "") EXCEPT !.entry = found]
  /\ UNCHANGED <<users, diaries, tokens, token_blacklist, now, ticks, next_jti,
                 next_id, dialect, analysis>>

\* The commit of an entry whose attributes were assigned: the session sends
\* an UPDATE, and with it the onupdate value of updated_at, only when an
\* assigned value differs from the loaded one.
onupdate(loaded, assigned) ==
  IF assigned = loaded THEN loaded ELSE [assigned EXCEPT !.updated_at = now]

update_diary_keep_counts(cred, diary_id, content, a) ==
  LET denied == jwt_required(cred, FALSE)
      current_user_id == get_jwt_identity(cred)
      found == diary_by_id(diary_id)
  IN
  /\ UNCHANGED <<registering, deleted, updating>>
  /\ req' = [Request("update_diary", cred) EXCEPT !.diary_id = diary_id,
                                                   !.content = content]
  /\ IF denied # ""
       THEN /\ resp' = Unauthorized(denied)
            /\ UNCHANGED <<diaries, analysis>>
     ELSE IF found = {}
       THEN /\ resp' = Response(404, "DIARY_NOT_FOUND")
            /\ UNCHANGED <<diaries, analysis>>
     ELSE IF \E d \in found : d.user_id # current_user_id
       THEN /\ resp' = Response(403, "FORBIDDEN")
            /\ UNCHANGED <<diaries, analysis>>
     ELSE IF ~DiarySchema_load(content)
       THEN /\ resp' = Response(400, "VALIDATION_ERROR")
            /\ UNCHANGED <<diaries, analysis>>
     ELSE
       \E diary \in found :
         /\ a.content = content
         /\ analysis' = a
         /\ IF a.result.raised
              THEN /\ resp' = Response(500, "INTERNAL_SERVER_ERROR")
                   /\ UNCHANGED diaries
              ELSE LET assigned == [diary EXCEPT
                                      !.content = content,
                                      !.analyzed_content = a.result.markup]
                       updated == onupdate(diary, assigned)
                   IN /\ diaries' = (diaries \ {diary}) \cup {updated}
                      /\ resp' = [Response(200, "") EXCEPT !.entry = {updated}]
  /\ UNCHANGED <<users, tokens, token_blacklist, now, ticks, next_jti, next_id,
                 dialect>>

update_diary(cred, diary_id, content, a) ==
  LET denied == jwt_required(cred, FALSE)
      current_user_id == get_jwt_identity(cred)
      found == diary_by_id(diary_id)
  IN
  /\ UNCHANGED <<registering, deleted, updating>>
  /\ req' = [Request("update_diary", cred) EXCEPT !.diary_id = diary_id,
                                                   !.content = content]
  /\ IF denied # ""
       THEN /\ resp' = Unauthorized(denied)
            /\ UNCHANGED <<diaries, analysis>>
     ELSE IF found = {}
       THEN /\ resp' = Response(404, "DIARY_NOT_FOUND")
            /\ UNCHANGED <<diaries, analysis>>
     ELSE IF \E d \in found : d.user_id # current_user_id
       THEN /\ resp' = Response(403, "FORBIDDEN")
            /\ UNCHANGED <<diaries, analysis>>
     ELSE IF ~DiarySchema_load(content)
       THEN /\ resp' = Response(400, "VALIDATION_ERROR")
            /\ UNCHANGED <<diaries, analysis>>
     ELSE
       \E diary \in found :
         /\ a.content = content
         /\ analysis' = a
         /\ IF a.result.raised
              THEN /\ resp' = Response(500, "INTERNAL_SERVER_ERROR")
                   /\ UNCHANGED diaries
              ELSE LET assigned == [diary EXCEPT
                                      !.content = content,
                                      !.analyzed_content = a.result.markup,
                                      !.positive_count = a.result.pos,
                                      !.negative_count = a.result.neg]
                       updated == onupdate(diary, assigned)
                   IN /\ diaries' = (diaries \ {diary}) \cup {updated}
                      /\ resp' = [Response(200, "") EXCEPT !.entry = {updated}]
  /\ UNCHANGED <<users, tokens, token_blacklist, now, ticks, next_jti, next_id,
                 dialect>>

\* The UPDATE that the commit of a session sends for an entry it loaded and
\* then assigned to: it sets the columns whose value differs from the loaded
\* one, and updated_at, in the row as it is stored now; no statement is sent
\* when no column differs.
flush(row, loaded, assigned) ==
  IF assigned = loaded THEN row
  ELSE [row EXCEPT
          !.content = IF assigned.content # loaded.content
                        THEN assigned.content ELSE @,
          !.analyzed_content =
             IF assigned.analyzed_content # loaded.analyzed_content
               THEN assigned.analyzed_content ELSE @,
          !.positive_count = IF assigned.positive_count # loaded.positive_count
                               THEN assigned.positive_count ELSE @,
          !.negative_count = IF assigned.negative_count # loaded.negative_count
                               THEN assigned.negative_count ELSE @,
          !.updated_at = now]

\* update_diary up to the call of analyze_sentiment: the handler of worker w
\* loads the entry into its session, checks the owner and validates the body.
update_begin(w, cred, diary_id, content) ==
  LET denied == jwt_required(cred, FALSE)
      current_user_id == get_jwt_identity(cred)
      found == diary_by_id(diary_id)
  IN
  /\ updating[w].pc = "idle"
  /\ req' = [Request("update_diary", cred) EXCEPT !.diary_id = diary_id,
                                                   !.content = content]
  /\ IF denied # ""
       THEN /\ resp' = Unauthorized(denied)
            /\ UNCHANGED updating
     ELSE IF found = {}
       THEN /\ resp' = Response(404, "DIARY_NOT_FOUND")
            /\ UNCHANGED updating
     ELSE IF \E d \in found : d.user_id # current_user_id
       THEN /\ resp' = Response(403, "FORBIDDEN")
            /\ UNCHANGED updating
     ELSE IF ~DiarySchema_load(content)
       THEN /\ resp' = Response(400, "VALIDATION_ERROR")
            /\ UNCHANGED updating
     ELSE
       \E diary \in found :
         /\ resp' = NoResponse
         /\ updating' = [updating EXCEPT ![w] =
              [pc |-> "loaded", cred |-> cred, content |-> content,
               loaded |-> diary]]
  /\ UNCHANGED <<users, diaries, tokens, token_blacklist, now, ticks, next_jti,
                 next_id, dialect, analysis, registering, deleted>>

\* update_diary from the return of analyze_sentiment to the response: the
\* four assignments to the loaded entry, the commit, and the dump of the
\* entry, which reads the stored row again. An UPDATE or a reading that
\* finds no row raises, and the application's handler answers 500.
update_commit(w, a) ==
  LET u == updating[w]
      assigned == [u.loaded EXCEPT !.content = u.content,
                                   !.analyzed_content = a.result.markup,
                                   !.positive_count = a.result.pos,
                                   !.negative_count = a.result.neg]
      rows == diary_by_id(u.loaded.id)
  IN
  /\ u.pc = "loaded"
  /\ a.content = u.content
  /\ analysis' = a
  /\ req' = [Request("update_diary", u.cred) EXCEPT !.diary_id = u.loaded.id,
                                                     !.content = u.content]
  /\ IF a.result.raised \/ rows = {}
       THEN /\ resp' = Response(500, "INTERNAL_SERVER_ERROR")
            /\ UNCHANGED diaries
     ELSE
       \E row \in rows :
         LET updated == flush(row, u.loaded, assigned)
         IN /\ diaries' = (diaries \ {row}) \cup {updated}
            /\ resp' = [Response(200, "") EXCEPT !.entry = {updated}]
  /\ updating' = [updating EXCEPT ![w] = NoUpdate]
  /\ UNCHANGED <<users, tokens, token_blacklist, now, ticks, next_jti, next_id,
                 dialect, registering, deleted>>

delete_diary_any_owner(cred, diary_id) ==
  LET denied == jwt_required(cred, FALSE)
      found == diary_by_id(diary_id)
  IN
  /\ UNCHANGED <<registering, updating>>
  /\ req' = [Request("delete_diary", cred) EXCEPT !.diary_id = diary_id]
  /\ IF denied # ""
       THEN /\ resp' = Unauthorized(denied)
            /\ UNCHANGED <<diaries, deleted>>
     ELSE IF found = {}
       THEN /\ resp' = Response(404, "DIARY_NOT_FOUND")
            /\ UNCHANGED <<diaries, deleted>>
     ELSE /\ diaries' = diaries \ found
          /\ deleted' = deleted \cup {diary_id}
          /\ resp' = Response(200, "")
  /\ UNCHANGED <<users, tokens, token_blacklist, now, ticks, next_jti, next_id,
                 dialect, analysis>>

delete_diary(cred, diary_id) ==
  LET denied == jwt_required(cred, FALSE)
      current_user_id == get_jwt_identity(cred)
      found == diary_by_id(diary_id)
  IN
  /\ UNCHANGED <<registering, updating>>
  /\ req' = [Request("delete_diary", cred) EXCEPT !.diary_id = diary_id]
  /\ IF denied # ""
       THEN /\ resp' = Unauthorized(denied)
            /\ UNCHANGED <<diaries, deleted>>
     ELSE IF found = {}
       THEN /\ resp' = Response(404, "DIARY_NOT_FOUND")
            /\ UNCHANGED <<diaries, deleted>>
     ELSE IF \E d \in found : d.user_id # current_user_id
       THEN /\ resp' = Response(403, "FORBIDDEN")
            /\ UNCHANGED <<diaries, deleted>>
     ELSE /\ diaries' = diaries \ found
          /\ deleted' = deleted \cup {diary_id}
          /\ resp' = Response(200, "")
  /\ UNCHANGED <<users, tokens, token_blacklist, now, ticks, next_jti, next_id,
                 dialect, analysis>>

\* ORDER BY created_at DESC: every order of the rows that is non-increasing in
\* created_at (rows of equal created_at come in an order the database picks).
RECURSIVE TiedOrderings(_)
TiedOrderings(rows) ==
  IF rows = {} THEN {<<>>}
  ELSE UNION {{<<r>> \o o : o \in TiedOrderings(rows \ {r})} :
                r \in {x \in rows : \A y \in rows : y.created_at <= x.created_at}}

\* The one order of rows whose created_at are all different: each row stands
\* after the rows newer than it.
Sorted(rows) ==
  LET newer == [r \in rows |->
                  Cardinality({x \in rows : x.created_at > r.created_at})]
  IN [i \in 1..Cardinality(rows) |-> CHOOSE r \in rows : newer[r] = i - 1]

Orderings(rows) ==
  IF \A x, y \in rows : x.created_at = y.created_at => x = y
    THEN {Sorted(rows)}
    ELSE TiedOrderings(rows)

Min(a, b) == IF a <= b THEN a ELSE b

CeilDiv(a, b) == (a + b - 1) \div b

PageArgs == {Absent, IntArg(1), IntArg(2)}
PerPageArgs == {Absent, IntArg(1), IntArg(10)}

\* Query.paginate(page, per_page, error_out=False) on an ordered result.
paginate(ordered, page_arg, per_page_arg) ==
  LET page == IF page_arg < 1 THEN 1 ELSE page_arg
      per_page == IF per_page_arg < 1 THEN 20 ELSE per_page_arg
      total == Len(ordered)
      first == (page - 1) * per_page + 1
      last == Min(total, page * per_page)
  IN [items |-> [i \in 1..(IF last >= first THEN last - first + 1 ELSE 0) |->
                   ordered[first + i - 1].id],
      page |-> page,
      per_page |-> per_page,
      total |-> total,
      pages |-> IF total = 0 THEN 0 ELSE CeilDiv(total, per_page)]

list_diaries_all_users(cred, page_arg, per_page_arg) ==
  LET denied == jwt_required(cred, FALSE)
      page == args_get(page_arg, 1)
      per_page == Min(args_get(per_page_arg, 10), 100)
  IN
  /\ UNCHANGED <<registering, deleted, updating>>
  /\ req' = [Request("list_diaries", cred) EXCEPT !.page = page_arg,
                                                   !.per_page = per_page_arg]
  /\ IF denied # ""
       THEN resp' = Unauthorized(denied)
       ELSE \E ordered \in Orderings(diaries) :
              resp' = [Response(200, "") EXCEPT
                         !.listing = paginate(ordered, page, per_page)]
  /\ UNCHANGED <<users, diaries, tokens, token_blacklist, now, ticks, next_jti,
                 next_id, dialect, analysis>>

list_diaries_uncapped(cred, page_arg, per_page_arg) ==
  LET denied == jwt_required(cred, FALSE)
      current_user_id == get_jwt_identity(cred)
      page == args_get(page_arg, 1)
      per_page == args_get(per_page_arg, 10)
      rows == {d \in diaries : d.user_id = current_user_id}
  IN
  /\ UNCHANGED <<registering, deleted, updating>>
  /\ req' = [Request("list_diaries", cred) EXCEPT !.page = page_arg,
                                                   !.per_page = per_page_arg]
  /\ IF denied # ""
       THEN resp' = Unauthorized(denied)
       ELSE \E ordered \in Orderings(rows) :
              resp' = [Response(200, "") EXCEPT
                         !.listing = paginate(ordered, page, per_page)]
  /\ UNCHANGED <<users, diaries, tokens, token_blacklist, now, ticks, next_jti,
                 next_id, dialect, analysis>>

list_diaries(cred, page_arg, per_page_arg) ==
  LET denied == jwt_required(cred, FALSE)
      current_user_id == get_jwt_identity(cred)
      page == args_get(page_arg, 1)
      per_page == Min(args_get(per_page_arg, 10), 100)
      rows == {d \in diaries : d.user_id = current_user_id}
  IN
  /\ UNCHANGED <<registering, deleted, updating>>
  /\ req' = [Request("list_diaries", cred) EXCEPT !.page = page_arg,
                                                   !.per_page = per_page_arg]
  /\ IF denied # ""
       THEN resp' = Unauthorized(denied)
       ELSE \E ordered \in Orderings(rows) :
              resp' = [Response(200, "") EXCEPT
                         !.listing = paginate(ordered, page, per_page)]
  /\ UNCHANGED <<users, diaries, tokens, token_blacklist, now, ticks, next_jti,
                 next_id, dialect, analysis>>

get_stats_all_users(cred) ==
  LET denied == jwt_required(cred, FALSE)
      rows == diaries
  IN
  /\ UNCHANGED <<registering, deleted, updating>>
  /\ req' = Request("get_stats", cred)
  /\ resp' =
       IF denied # "" THEN Unauthorized(denied)
       ELSE [Response(200, "") EXCEPT !.stats =
               [total_entries |-> Cardinality(rows),
                positive_entries |->
                  Cardinality({d \in rows : d.positive_count > d.negative_count}),
                negative_entries |->
                  Cardinality({d \in rows : d.negative_count > d.positive_count}),
                neutral_entries |->
                  Cardinality({d \in rows : d.positive_count = d.negative_count})]]
  /\ UNCHANGED <<users, diaries, tokens, token_blacklist, now, ticks, next_jti,
                 next_id, dialect, analysis>>

get_stats(cred) ==
  LET denied == jwt_required(cred, FALSE)
      current_user_id == get_jwt_identity(cred)
      rows == {d \in diaries : d.user_id = current_user_id}
  IN
  /\ UNCHANGED <<registering, deleted, updating>>
  /\ req' = Request("get_stats", cred)
  /\ resp' =
       IF denied # "" THEN Unauthorized(denied)
       ELSE [Response(200, "") EXCEPT !.stats =
               [total_entries |-> Cardinality(rows),
                positive_entries |->
                  Cardinality({d \in rows : d.positive_count > d.negative_count}),
                negative_entries |->
                  Cardinality({d \in rows : d.negative_count > d.positive_count}),
                neutral_entries |->
                  Cardinality({d \in rows : d.positive_count = d.negative_count})]]
  /\ UNCHANGED <<users, diaries, tokens, token_blacklist, now, ticks, next_jti,
                 next_id, dialect, analysis>>

(***************************************************************************)
(* Sentiment classes                                                       *)
(***************************************************************************)
get_sentiment_summary_ties_positive(positive_count, negative_count) ==
  IF positive_count >= negative_count THEN "positive" ELSE "negative"

get_sentiment_summary(positive_count, negative_count) ==
  IF positive_count > negative_count THEN "positive"
  ELSE IF negative_count > positive_count THEN "negative"
  ELSE "neutral"

\* ThoughtDiary.get_sentiment
get_sentiment(self) ==
  IF self.positive_count > self.negative_count THEN "positive"
  ELSE IF self.negative_count > self.positive_count THEN "negative"
  ELSE "neutral"

\* A call of get_sentiment_summary with two counts.
sentiment_summary(positive_count, negative_count) ==
  /\ UNCHANGED <<registering, deleted, updating>>
  /\ req' = [Request("get_sentiment_summary", NoCred) EXCEPT
               !.positive_count = positive_count,
               !.negative_count = negative_count]
  /\ resp' = [Response(0, "") EXCEPT
                !.sentiment = get_sentiment_summary(positive_count, negative_count)]
  /\ UNCHANGED <<users, diaries, tokens, token_blacklist, now, ticks, next_jti,
                 next_id, dialect, analysis>>

\* ThoughtDiary.to_dict of a stored entry: its fields and its sentiment.
to_dict(diary_id) ==
  /\ UNCHANGED <<registering, deleted, updating>>
  /\ req' = [Request("to_dict", NoCred) EXCEPT !.diary_id = diary_id]
  /\ \E self \in diary_by_id(diary_id) :
       resp' = [Response(0, "") EXCEPT !.entry = {self},
                                       !.sentiment = get_sentiment(self)]
  /\ UNCHANGED <<users, diaries, tokens, token_blacklist, now, ticks, next_jti,
                 next_id, dialect, analysis>>

(***************************************************************************)
(* Time                                                                    *)
(***************************************************************************)
Tick(d) ==
  /\ ticks < MaxTicks
  /\ now' = now + d
  /\ ticks' = ticks + 1
  /\ UNCHANGED <<registering, deleted, updating>>
  /\ req' = NoRequest
  /\ resp' = NoResponse
  /\ UNCHANGED <<users, diaries, tokens, token_blacklist, next_jti, next_id,
                 dialect, analysis>>

(***************************************************************************)
(* The application, from the state create_app leaves: the authentication   *)
(* routes                                                                  *)
(***************************************************************************)
Init ==
  /\ users = {}
  /\ diaries = {}
  /\ tokens = {}
  /\ token_blacklist = {}
  /\ now = 0
  /\ ticks = 0
  /\ next_jti = 1
  /\ next_id = 1
  /\ dialect = "sqlite"
  /\ req = NoRequest
  /\ resp = NoResponse
  /\ analysis = NoAnalysis
  /\ registering = NoRegistrations
  /\ deleted = {}
  /\ updating = NoUpdates

\* Credentials under a signature of this application, or none.
IssuedCredentials == {c \in Credentials : c.kind = "none" \/ c.sig_ok}

Next ==
  \/ \E email \in Emails, password \in Passwords : register(email, password)
  \/ \E email \in Emails, password \in Passwords : login(email, password)
  \/ \E cred \in IssuedCredentials : refresh(cred)
  \/ \E cred \in IssuedCredentials : logout(cred)
  \/ \E cred \in IssuedCredentials : get_current_user(cred)

Spec == Init /\ [][Next]_vars

(***************************************************************************)
(* Every route behind jwt_required, from the state in which one user has   *)
(* registered and logged in                                                *)
(***************************************************************************)
UserA ==
  [id |-> 1, email |-> Str_a_x_io,
   password_hash |-> set_password(StrongPassword, 1)]
UserB ==
  [id |-> 2, email |-> Str_b_x_io,
   password_hash |-> set_password(StrongPassword, 2)]

InitGuard ==
  /\ now = 0
  /\ ticks = 0
  /\ users = {UserA}
  /\ diaries = {}
  /\ tokens = {create_access_token(1, 1), create_refresh_token(1, 2)}
  /\ token_blacklist = {}
  /\ next_jti = 3
  /\ next_id = 1
  /\ dialect = "sqlite"
  /\ req = NoRequest
  /\ resp = NoResponse
  /\ analysis = NoAnalysis
  /\ registering = NoRegistrations
  /\ deleted = {}
  /\ updating = NoUpdates

GuardContent == <<"x">>
GuardAnalysis ==
  Analysis(GuardContent, ConfiguredToken,
           Reply("response", 200, TRUE, "content", <<PosTag, "x", EndTag>>))

GuardCredentials ==
  {c \in Credentials : c.kind # "jwt" \/ c.sig_ok \/ c.token.jti <= 2}

\* Tokens minted, entries inserted and clock steps since InitGuard.
Growth == (next_jti - 3) + (next_id - 1) + ticks

NextGuard ==
  \/ \E cred \in GuardCredentials : refresh(cred) /\ Growth' <= MaxGrowth
  \/ \E cred \in GuardCredentials : logout(cred)
  \/ \E cred \in GuardCredentials : get_current_user(cred)
  \/ \E cred \in GuardCredentials : list_diaries(cred, Absent, Absent)
  \/ \E cred \in GuardCredentials :
       /\ create_diary(cred, GuardContent, NoExtra, GuardAnalysis)
       /\ next_id' <= MaxDiaries + 1
       /\ Growth' <= MaxGrowth
  \/ \E cred \in GuardCredentials, diary_id \in DiaryIds : get_diary(cred, diary_id)
  \/ \E cred \in GuardCredentials, diary_id \in DiaryIds :
       update_diary(cred, diary_id, GuardContent, GuardAnalysis)
  \/ \E cred \in GuardCredentials, diary_id \in DiaryIds : delete_diary(cred, diary_id)
  \/ \E cred \in GuardCredentials : get_stats(cred)
  \/ \E d \in {JWT_ACCESS_TOKEN_EXPIRES, JWT_REFRESH_TOKEN_EXPIRES} :
       Tick(d) /\ Growth' <= MaxGrowth

SpecGuard == InitGuard /\ [][NextGuard]_vars

(***************************************************************************)
(* The diary routes, from the state in which two users have registered and *)
(* logged in                                                               *)
(***************************************************************************)
InitDiaries ==
  /\ now = 0
  /\ ticks = 0
  /\ users = {UserA, UserB}
  /\ diaries = {}
  /\ tokens = {create_access_token(1, 1), create_refresh_token(1, 2),
               create_access_token(2, 3), create_refresh_token(2, 4)}
  /\ token_blacklist = {}
  /\ next_jti = 5
  /\ next_id = 1
  /\ dialect \in {"sqlite", "postgresql"}
  /\ req = NoRequest
  /\ resp = NoResponse
  /\ analysis = NoAnalysis
  /\ registering = NoRegistrations
  /\ deleted = {}
  /\ updating = NoUpdates

AccessCredentials ==
  {c \in Credentials : c.kind = "jwt" /\ c.sig_ok /\ c.token.type = "access"}

NextDiaries ==
  \/ \E cred \in AccessCredentials, page \in PageArgs, per_page \in PerPageArgs :
       list_diaries(cred, page, per_page)
  \/ \E cred \in AccessCredentials, content \in Contents :
       \E a \in RouteAnalyses(content) :
         create_diary(cred, content, NoExtra, a) /\ next_id' <= MaxDiaries + 1
  \/ \E cred \in AccessCredentials, diary_id \in DiaryIds :
       get_diary(cred, diary_id)
  \/ \E cred \in AccessCredentials, diary_id \in DiaryIds, content \in Contents :
       \E a \in RouteAnalyses(content) : update_diary(cred, diary_id, content, a)
  \/ \E cred \in AccessCredentials, diary_id \in DiaryIds :
       delete_diary(cred, diary_id)
  \/ \E cred \in AccessCredentials : get_stats(cred)

SpecDiaries == InitDiaries /\ [][NextDiaries]_vars

(***************************************************************************)
(* The annotation client alone: analyze_sentiment called with any text,    *)
(* any configuration and any answer of the service                         *)
(***************************************************************************)
AnalyzeContents ==
  {<<"x">>,
   <<" ", "x", " ">>,
   <<"x", "\n">>,
   <<PosTag, "x", EndTag>>,
   <<"x", NegTag, "y", EndTag, PosTag, PosTag>>,
   Fence \o <<"x">> \o Fence,
   FenceHtml \o <<"\n", NegTag, "x", EndTag, "\n">> \o Fence,
   <<>>}

SuccessStatuses == {200, 201}
ErrorStatuses == {400, 401, 404, 429, 500, 503}

MissingFieldShapes == {"no_choices", "empty_choices", "no_message", "no_content"}
OtherShapes == {"not_object", "null_choices", "null_message", "null_content"}

ServiceTexts(content) ==
  {content,
   <<PosTag>> \o content \o <<EndTag>>,
   FenceHtml \o <<"\n", PosTag, "x", EndTag, NegTag, "y", EndTag, "\n">> \o Fence,
   <<" ">> \o Fence \o <<PosTag, PosTag, "x", EndTag, EndTag>> \o Fence,
   Fence \o <<"x", "m", "l", "\n", PosTag, "x", EndTag, "\n">> \o Fence,
   Fence \o <<"\n", "x", NegTag, "y", EndTag, "\n">> \o Fence}

Replies(content) ==
  {Reply(k, 0, FALSE, "", <<>>) :
     k \in {"timeout", "connection_error", "request_error"}}
    \cup {Reply("response", st, FALSE, "", <<>>) : st \in ErrorStatuses}
    \cup {Reply("response", st, TRUE, "no_choices", <<>>) : st \in ErrorStatuses}
    \cup {Reply("response", st, FALSE, "", <<>>) : st \in SuccessStatuses}
    \cup {Reply("response", st, TRUE, sh, <<>>) :
            st \in SuccessStatuses, sh \in MissingFieldShapes \cup OtherShapes}
    \cup {Reply("response", st, TRUE, "content", t) :
            st \in SuccessStatuses, t \in ServiceTexts(content)}

Analyze(content, github_token, reply) ==
  /\ analysis' = Analysis(content, github_token, reply)
  /\ UNCHANGED <<users, diaries, tokens, token_blacklist, now, ticks, next_jti,
                 next_id, dialect, req, resp, registering, deleted, updating>>

NextAnalyze ==
  \E content \in AnalyzeContents :
    \/ \E reply \in Replies(content) : Analyze(content, ConfiguredToken, reply)
    \/ \E g \in GithubTokens \ {ConfiguredToken} : Analyze(content, g, NoReply)

SpecAnalyze == Init /\ [][NextAnalyze]_vars

(***************************************************************************)
(* Listing and statistics over populated tables: the entries two users     *)
(* have left after creating and deleting, and long runs of one user        *)
(***************************************************************************)
\* An entry as create_diary stores it: the markup holds the counted tags.
Entry(id, user_id, created_at, pos, neg) ==
  [id |-> id, user_id |-> user_id, content |-> <<"x">>,
   analyzed_content |->
     <<"x">> \o [i \in 1..(pos + neg) |-> IF i <= pos THEN PosTag ELSE NegTag],
   positive_count |-> pos, negative_count |-> neg,
   created_at |-> created_at, updated_at |-> created_at]

ListingPool ==
  {Entry(1, 1, 0, 1, 0), Entry(2, 1, 0, 0, 1), Entry(3, 2, 1, 2, 0),
   Entry(4, 1, 2, 1, 1), Entry(5, 2, 2, 0, 0)}

\* n entries of user 1, one per clock step, and one entry of user 2.
Run(n) ==
  {Entry(i, 1, i, i % 3, (i \div 3) % 2) : i \in 1..n} \cup {Entry(n + 1, 2, n, 0, 0)}

ListingSizes == {15, 101}

ListingTables == (SUBSET ListingPool) \cup {Run(n) : n \in ListingSizes}

InitListing ==
  /\ diaries \in ListingTables
  /\ now = SetMax({0} \cup {d.created_at : d \in diaries})
  /\ ticks = 0
  /\ users = {UserA, UserB}
  /\ tokens = {create_access_token(1, 1), create_refresh_token(1, 2),
               create_access_token(2, 3), create_refresh_token(2, 4)}
  /\ token_blacklist = {}
  /\ next_jti = 5
  /\ next_id = SetMax({0} \cup {d.id : d \in diaries}) + 1
  /\ dialect = "sqlite"
  /\ req = NoRequest
  /\ resp = NoResponse
  /\ analysis = NoAnalysis
  /\ registering = NoRegistrations
  /\ deleted = {}
  /\ updating = NoUpdates

ListPageArgs == {Absent, IntArg(0), IntArg(1), IntArg(2)}
ListPerPageArgs == {Absent, TextArg, IntArg(2), IntArg(150)}

NextListing ==
  \/ \E cred \in AccessCredentials, page \in ListPageArgs,
        per_page \in ListPerPageArgs : list_diaries(cred, page, per_page)
  \/ \E cred \in AccessCredentials : get_stats(cred)

SpecListing == InitListing /\ [][NextListing]_vars

(***************************************************************************)
(* Deleting a user (db.session.delete(user); commit): no route does it,    *)
(* the model layer offers it                                               *)
(***************************************************************************)
delete_user_no_cascade(user_id) ==
  /\ \E u \in users : u.id = user_id
  /\ users' = {u \in users : u.id # user_id}
  /\ UNCHANGED <<registering, deleted, updating>>
  /\ req' = Request("delete_user", NoCred)
  /\ resp' = NoResponse
  /\ UNCHANGED <<diaries, tokens, token_blacklist, now, ticks, next_jti, next_id,
                 dialect, analysis>>

\* The relationship User.thought_diaries cascades "all, delete-orphan": the
\* session deletes the user's entries in the transaction that deletes the
\* user.  Tokens issued to the user are not touched.
delete_user(user_id) ==
  /\ \E u \in users : u.id = user_id
  /\ users' = {u \in users : u.id # user_id}
  /\ diaries' = {d \in diaries : d.user_id # user_id}
  /\ UNCHANGED <<registering, deleted, updating>>
  /\ req' = Request("delete_user", NoCred)
  /\ resp' = NoResponse
  /\ UNCHANGED <<tokens, token_blacklist, now, ticks, next_jti, next_id, dialect,
                 analysis>>

\* Two logged-in users, three entries of the first and two of the second.
InitCascade ==
  /\ diaries = ListingPool
  /\ now = 2
  /\ ticks = 0
  /\ users = {UserA, UserB}
  /\ tokens = {create_access_token(1, 1), create_refresh_token(1, 2),
               create_access_token(2, 3), create_refresh_token(2, 4)}
  /\ token_blacklist = {}
  /\ next_jti = 5
  /\ next_id = 6
  /\ dialect \in {"sqlite", "postgresql"}
  /\ req = NoRequest
  /\ resp = NoResponse
  /\ analysis = NoAnalysis
  /\ registering = NoRegistrations
  /\ deleted = {}
  /\ updating = NoUpdates

NextCascade ==
  \/ \E u \in users : delete_user(u.id)
  \/ \E cred \in AccessCredentials, diary_id \in {d.id : d \in ListingPool} :
       get_diary(cred, diary_id)
  \/ \E cred \in AccessCredentials, page \in PageArgs, per_page \in PerPageArgs :
       list_diaries(cred, page, per_page)
  \/ \E cred \in AccessCredentials : get_stats(cred)

SpecCascade == InitCascade /\ [][NextCascade]_vars

(***************************************************************************)
(* Every route that writes, with the routes that let a second user in,     *)
(* from the state in which one user has registered and logged in           *)
(***************************************************************************)
InitFrame ==
  /\ now = 0
  /\ ticks = 0
  /\ users = {UserA}
  /\ diaries = {}
  /\ tokens = {create_access_token(1, 1), create_refresh_token(1, 2)}
  /\ token_blacklist = {}
  /\ next_jti = 3
  /\ next_id = 1
  /\ dialect = "sqlite"
  /\ req = NoRequest
  /\ resp = NoResponse
  /\ analysis = NoAnalysis
  /\ registering = NoRegistrations
  /\ deleted = {}
  /\ updating = NoUpdates

\* No Authorization header, or an access token this application issued.
FrameCredentials == {NoCred} \cup AccessCredentials

FrameAnalyses(content) == {Analysis(content, NoneValue, NoReply)}

NextFrame ==
  \/ \E email \in Emails, password \in Passwords : register(email, password)
  \/ \E email \in Emails, password \in Passwords : login(email, password)
  \/ \E cred \in FrameCredentials : logout(cred)
  \/ \E cred \in FrameCredentials : get_current_user(cred)
  \/ \E cred \in FrameCredentials, content \in Contents :
       \E a \in FrameAnalyses(content) :
         create_diary(cred, content, NoExtra, a) /\ next_id' <= MaxDiaries + 1
  \/ \E cred \in FrameCredentials, diary_id \in DiaryIds :
       get_diary(cred, diary_id)
  \/ \E cred \in FrameCredentials, diary_id \in DiaryIds, content \in Contents :
       \E a \in FrameAnalyses(content) : update_diary(cred, diary_id, content, a)
  \/ \E cred \in FrameCredentials, diary_id \in DiaryIds :
       delete_diary(cred, diary_id)

SpecFrame == InitFrame /\ [][NextFrame]_vars

(***************************************************************************)
(* Registrations served side by side by two workers                        *)
(***************************************************************************)
NextRace ==
  \/ \E w \in Workers, email \in Emails, password \in Passwords :
       register_begin(w, email, password)
  \/ \E w \in Workers : register_commit(w)

SpecRace == Init /\ [][NextRace]_vars

(***************************************************************************)
(* The two routes that store content, given contents at and around the     *)
(* limits of the schema                                                    *)
(***************************************************************************)
Filled(n) == [i \in 1..n |-> "x"]

LimitContents ==
  {<<>>,
   <<" ">>,
   <<"\n", "\t">>,
   <<"x">>,
   <<" ", "x", " ">>,
   Filled(MaxContentLen),
   Filled(MaxContentLen + 1),
   <<" ">> \o Filled(MaxContentLen - 1),
   <<" ">> \o Filled(MaxContentLen),
   <<" ">> \o Filled(MaxContentLen - 2) \o <<"\n", "\n">>}

NextContent ==
  \/ \E cred \in FrameCredentials, content \in LimitContents :
       \E a \in FrameAnalyses(content) :
         create_diary(cred, content, NoExtra, a) /\ next_id' <= MaxDiaries + 1
  \/ \E cred \in FrameCredentials, diary_id \in DiaryIds, content \in LimitContents :
       \E a \in FrameAnalyses(content) : update_diary(cred, diary_id, content, a)
  \/ \E cred \in FrameCredentials, diary_id \in DiaryIds :
       delete_diary(cred, diary_id)

SpecContent == InitFrame /\ [][NextContent]_vars

(***************************************************************************)
(* Sentiment classes of one entry, for every pair of counts                *)
(***************************************************************************)
MaxCount == 3
Counts == 0..MaxCount

InitSentiment ==
  /\ diaries \in {{Entry(1, 1, 0, p, n)} : p \in Counts, n \in Counts}
  /\ now = 0
  /\ ticks = 0
  /\ users = {UserA, UserB}
  /\ tokens = {create_access_token(1, 1), create_refresh_token(1, 2),
               create_access_token(2, 3), create_refresh_token(2, 4)}
  /\ token_blacklist = {}
  /\ next_jti = 5
  /\ next_id = 2
  /\ dialect = "sqlite"
  /\ req = NoRequest
  /\ resp = NoResponse
  /\ analysis = NoAnalysis
  /\ registering = NoRegistrations
  /\ deleted = {}
  /\ updating = NoUpdates

NextSentiment ==
  \/ \E p \in Counts, n \in Counts : sentiment_summary(p, n)
  \/ \E d \in diaries : to_dict(d.id)
  \/ \E cred \in AccessCredentials : get_stats(cred)

SpecSentiment == InitSentiment /\ [][NextSentiment]_vars

(***************************************************************************)
(* validate_password alone, called with passwords that fail any set of its *)
(* rules                                                                   *)
(***************************************************************************)
\* One character of each class the rules look for, and one of no class.
ClassChars == <<"A", "a", "1", "!">>
NoClassChar == "~"

\* The characters of the given classes, filled up to n characters.
Compose(classes, n) ==
  LET head == SelectSeq(ClassChars, LAMBDA c : c \in classes)
  IN head \o [i \in 1..(n - Len(head)) |-> NoClassChar]

Reverse(s) == [i \in 1..Len(s) |-> s[Len(s) + 1 - i]]

PasswordLengths == {4, 7, 8, 9}

PolicyPasswords ==
  {<<>>}
    \cup {Compose(classes, n) :
            classes \in SUBSET {"A", "a", "1", "!"}, n \in PasswordLengths}
    \cup {Reverse(Compose(classes, n)) :
            classes \in SUBSET {"A", "a", "1", "!"}, n \in PasswordLengths}
    \cup {<<"A", "a", "1", c, "a", "a", "a", "a">> : c \in {"-", "]", "?", "/", " "}}

\* A call of validate_password: the tuple it returns.
validate(password) ==
  LET r == validate_password(password)
  IN
  /\ UNCHANGED <<registering, deleted, updating>>
  /\ req' = [Request("validate_password", NoCred) EXCEPT !.password = password]
  /\ resp' = [Response(0, "") EXCEPT !.returned = <<r.ok, r.msg>>]
  /\ UNCHANGED <<users, diaries, tokens, token_blacklist, now, ticks, next_jti,
                 next_id, dialect, analysis>>

NextPassword == \E password \in PolicyPasswords : validate(password)

SpecPassword == Init /\ [][NextPassword]_vars

(***************************************************************************)
(* The authentication routes over a users table that holds, beside a       *)
(* registered user, records whose password_hash was not written by         *)
(* set_password                                                            *)
(***************************************************************************)
Str_m_x_io == <<"m", "@", "x", ".", "i", "o">>
Str_o_x_io == <<"o", "@", "x", ".", "i", "o">>

UserM == [id |-> 2, email |-> Str_m_x_io, password_hash |-> MalformedHash]
UserO == [id |-> 3, email |-> Str_o_x_io, password_hash |-> EmptyHash]

InitForeign ==
  /\ users = {UserA, UserM, UserO}
  /\ diaries = {}
  /\ tokens = {}
  /\ token_blacklist = {}
  /\ now = 0
  /\ ticks = 0
  /\ next_jti = 1
  /\ next_id = 1
  /\ dialect = "sqlite"
  /\ req = NoRequest
  /\ resp = NoResponse
  /\ analysis = NoAnalysis
  /\ registering = NoRegistrations
  /\ deleted = {}
  /\ updating = NoUpdates

ForeignEmails == {Str_a_x_io, Str_m_x_io, Str_o_x_io, Str_b_x_io}

NextForeign ==
  \/ \E email \in ForeignEmails, password \in Passwords : login(email, password)
  \/ \E cred \in IssuedCredentials : refresh(cred)
  \/ \E cred \in IssuedCredentials : logout(cred)
  \/ \E cred \in IssuedCredentials : get_current_user(cred)

SpecForeign == InitForeign /\ [][NextForeign]_vars

(***************************************************************************)
(* Updates of stored entries while the clock moves: two users, one entry   *)
(* each                                                                    *)
(***************************************************************************)
InitUpdate ==
  /\ diaries = {Entry(1, 1, 0, 1, 0), Entry(2, 2, 0, 0, 1)}
  /\ now = 0
  /\ ticks = 0
  /\ users = {UserA, UserB}
  /\ tokens = {create_access_token(1, 1), create_refresh_token(1, 2),
               create_access_token(2, 3), create_refresh_token(2, 4)}
  /\ token_blacklist = {}
  /\ next_jti = 5
  /\ next_id = 3
  /\ dialect = "sqlite"
  /\ req = NoRequest
  /\ resp = NoResponse
  /\ analysis = NoAnalysis
  /\ registering = NoRegistrations
  /\ deleted = {}
  /\ updating = NoUpdates

\* A clock step short enough to leave the access tokens valid.
ShortStep == 1

NextUpdate ==
  \/ \E cred \in AccessCredentials, diary_id \in DiaryIds, content \in Contents :
       \E a \in RouteAnalyses(content) : update_diary(cred, diary_id, content, a)
  \/ \E cred \in AccessCredentials, diary_id \in DiaryIds :
       get_diary(cred, diary_id)
  \/ Tick(ShortStep)

SpecUpdate == InitUpdate /\ [][NextUpdate]_vars

(***************************************************************************)
(* Creating again after deleting: two users, one text, one entry more than *)
(* the other specifications create                                         *)
(***************************************************************************)
NextRecreate ==
  \/ \E cred \in AccessCredentials :
       \E a \in FrameAnalyses(GuardContent) :
         create_diary(cred, GuardContent, NoExtra, a) /\ next_id' <= MaxDiaries + 2
  \/ \E cred \in AccessCredentials, diary_id \in DiaryIds :
       get_diary(cred, diary_id)
  \/ \E cred \in AccessCredentials, diary_id \in DiaryIds :
       \E a \in FrameAnalyses(GuardContent) :
         update_diary(cred, diary_id, GuardContent, a)
  \/ \E cred \in AccessCredentials, diary_id \in DiaryIds :
       delete_diary(cred, diary_id)
  \/ \E cred \in AccessCredentials : list_diaries(cred, Absent, Absent)
  \/ \E cred \in AccessCredentials : get_stats(cred)

SpecRecreate == InitDiaries /\ [][NextRecreate]_vars

(***************************************************************************)
(* Two workers serving PUT /diaries/{id} side by side, from the state in   *)
(* which one user has logged in and owns one entry                         *)
(***************************************************************************)
InitInterleave ==
  /\ now = 0
  /\ ticks = 0
  /\ users = {UserA}
  /\ diaries = {Entry(1, 1, 0, 1, 0)}
  /\ tokens = {create_access_token(1, 1), create_refresh_token(1, 2)}
  /\ token_blacklist = {}
  /\ next_jti = 3
  /\ next_id = 2
  /\ dialect = "postgresql"
  /\ req = NoRequest
  /\ resp = NoResponse
  /\ analysis = NoAnalysis
  /\ registering = NoRegistrations
  /\ deleted = {}
  /\ updating = NoUpdates

\* The two texts submitted, and the annotation of a text with GITHUB_TOKEN
\* configured: marked by the service, or returned as it is when the call
\* times out or the reply has no choices.
InterleaveContents == {<<"x">>, <<" ", PosTag, "x", EndTag>>}
InterleaveAnalyses(content) ==
  {Analysis(content, ConfiguredToken, r) : r \in RouteReplies(content)}

NextInterleave ==
  \/ \E w \in Workers, cred \in AccessCredentials, diary_id \in DiaryIds,
        content \in InterleaveContents :
       update_begin(w, cred, diary_id, content)
  \/ \E w \in Workers :
       \E a \in InterleaveAnalyses(updating[w].content) : update_commit(w, a)

SpecInterleave == InitInterleave /\ [][NextInterleave]_vars

(***************************************************************************)
(* Users deleted while their tokens are still accepted: two logged-in      *)
(* users, the diary routes and the deletion of a user                      *)
(***************************************************************************)
NextOrphan ==
  \/ \E u \in users : delete_user(u.id)
  \/ \E cred \in AccessCredentials :
       \E a \in FrameAnalyses(GuardContent) :
         create_diary(cred, GuardContent, NoExtra, a) /\ next_id' <= MaxDiaries + 2
  \/ \E cred \in AccessCredentials, diary_id \in DiaryIds : get_diary(cred, diary_id)
  \/ \E cred \in AccessCredentials, diary_id \in DiaryIds : delete_diary(cred, diary_id)
  \/ \E cred \in AccessCredentials : get_current_user(cred)
  \/ \E cred \in AccessCredentials : get_stats(cred)

SpecOrphan == InitDiaries /\ [][NextOrphan]_vars

(***************************************************************************)
(* Request bodies that carry more than content: two logged-in users and    *)
(* the routes on entries                                                   *)
(***************************************************************************)
NextOwner ==
  \/ \E cred \in AccessCredentials, extra \in ExtraFields :
       \E a \in FrameAnalyses(GuardContent) :
         create_diary(cred, GuardContent, extra, a) /\ next_id' <= MaxDiaries + 2
  \/ \E cred \in AccessCredentials, diary_id \in DiaryIds : get_diary(cred, diary_id)
  \/ \E cred \in AccessCredentials, diary_id \in DiaryIds, content \in Contents :
       \E a \in FrameAnalyses(content) : update_diary(cred, diary_id, content, a)
  \/ \E cred \in AccessCredentials, diary_id \in DiaryIds : delete_diary(cred, diary_id)

SpecOwner == InitDiaries /\ [][NextOwner]_vars

(***************************************************************************)
(* Properties                                                              *)
(***************************************************************************)
\* Routes behind jwt_required() (access tokens), and the routes on one entry.
ProtectedRoutes ==
  {"logout", "me", "list_diaries", "create_diary", "get_diary", "update_diary",
   "delete_diary", "get_stats"}
EntryRoutes == {"get_diary", "update_diary", "delete_diary"}

\* The request of this step presents a token this application signed.
PresentsToken == req'.route # "" /\ req'.cred.kind = "jwt" /\ req'.cred.sig_ok

\* C1: a successful logout puts the token's jti into the revoked set, no step
\* ever removes a jti from the set, every request to a protected route (and to
\* /auth/refresh) that presents a token whose jti is in the set is answered
\* 401, also while the token is unexpired; an unexpired access token whose jti
\* is not in the set is never answered 401 on a protected route.
C1_RevokedTokenRejectedForever ==
  [][/\ token_blacklist \subseteq token_blacklist'
     /\ (req'.route = "logout" /\ resp'.status = 200) =>
          req'.cred.token.jti \in token_blacklist'
     /\ (PresentsToken /\ req'.cred.token.jti \in token_blacklist) =>
          resp'.status = 401
     /\ (/\ PresentsToken
         /\ req'.route \in ProtectedRoutes
         /\ req'.cred.token.type = "access"
         /\ req'.cred.token.exp > now
         /\ req'.cred.token.jti \notin token_blacklist) =>
          resp'.status # 401]_vars

\* C1 witness: after logout and a later refresh, a diary route answers
\* TOKEN_REVOKED to the logged-out token, which has not expired.
C1_Witness ==
  /\ req.route \in {"get_diary", "list_diaries", "create_diary"}
  /\ req.cred.sig_ok
  /\ req.cred.token.jti \in token_blacklist
  /\ req.cred.token.exp > now
  /\ next_jti > 3
  /\ resp = Unauthorized("TOKEN_REVOKED")

\* C2: a GET, PUT or DELETE on an entry that exists and is owned by another
\* user than the caller is answered 403, and the stored entries are the same
\* after it.
C2_NonOwnerForbidden ==
  [][(/\ req'.route \in EntryRoutes
      /\ \E d \in diary_by_id(req'.diary_id) : d.user_id # req'.cred.token.sub) =>
       /\ resp' = Response(403, "FORBIDDEN")
       /\ diaries' = diaries]_vars

\* C2 witness: user 2 asked to delete the annotated entry of user 1, with a
\* body-less request answered 403, and the entry is still stored.
C2_Witness ==
  /\ req.route = "delete_diary"
  /\ req.cred.token.sub = 2
  /\ \E d \in diary_by_id(req.diary_id) : d.user_id = 1 /\ d.positive_count > 0
  /\ resp.status = 403

\* Emails equal after trimming and lowercasing.
SameNormalizedEmail(e1, e2) == lower(strip(e1)) = lower(strip(e2))

\* C3 as stated: every registration whose normalized email is that of an
\* existing user is answered 400 EMAIL_EXISTS and leaves the users unchanged.
C3_DuplicateAlwaysEmailExists ==
  [][(/\ req'.route = "register"
      /\ \E u \in users : SameNormalizedEmail(u.email, req'.email)) =>
       /\ resp' = Response(400, "EMAIL_EXISTS")
       /\ users' = users]_vars

\* C3, amended: no two users have emails equal after normalization; a
\* registration whose payload passes validation and whose normalized email is
\* that of an existing user is answered 400 EMAIL_EXISTS, whatever its letter
\* case; a payload that fails validation is answered 400 VALIDATION_ERROR even
\* when its email is registered; both leave the users unchanged.
C3_EmailUniqueValidDuplicateRejected ==
  /\ [](\A u, v \in users : SameNormalizedEmail(u.email, v.email) => u = v)
  /\ [][req'.route = "register" =>
          LET valid == /\ fields_Email(req'.email)
                       /\ validate_email(req'.email)
                       /\ validate_password(req'.password).ok
              taken == \E u \in users : SameNormalizedEmail(u.email, req'.email)
          IN /\ (valid /\ taken) =>
                  resp' = Response(400, "EMAIL_EXISTS") /\ users' = users
             /\ ~valid =>
                  resp' = Response(400, "VALIDATION_ERROR") /\ users' = users
             /\ (valid /\ ~taken) =>
                  resp'.status = 201 /\ Cardinality(users') = Cardinality(users) + 1]_vars

\* C3 witness: a@x.io is registered and A@x.io was answered EMAIL_EXISTS.
C3_Witness ==
  /\ req.route = "register"
  /\ req.email = Str_A_x_io
  /\ req.password = StrongPassword
  /\ \E u \in users : u.email = Str_a_x_io
  /\ resp = Response(400, "EMAIL_EXISTS")

\* The token of this step's request is signed by the application and
\* unexpired.
PresentsLiveToken == PresentsToken /\ req'.cred.token.exp > now

\* C4: /auth/refresh presented with an unexpired, unrevoked access token
\* answers 401 and mints nothing; a route guarded for access tokens presented
\* with an unexpired refresh token answers 401, returns no entry, listing or
\* statistics, and writes nothing.
C4_TokenTypesNotInterchangeable ==
  [][/\ (/\ PresentsLiveToken
         /\ req'.route = "refresh"
         /\ req'.cred.token.type = "access"
         /\ req'.cred.token.jti \notin token_blacklist) =>
          /\ resp'.status = 401
          /\ resp'.minted = {}
          /\ UNCHANGED <<tokens, next_jti>>
     /\ (/\ PresentsLiveToken
         /\ req'.route \in ProtectedRoutes
         /\ req'.cred.token.type = "refresh") =>
          /\ resp'.status = 401
          /\ resp'.entry = {} /\ resp'.listing = NoListing /\ resp'.stats = NoStats
          /\ UNCHANGED <<users, diaries, tokens, token_blacklist, next_jti,
                         next_id, analysis>>]_vars

\* C4 witness: an entry is stored, and a GET of it presenting the unexpired
\* refresh token was answered 401.
C4_Witness ==
  /\ req.route = "get_diary"
  /\ diary_by_id(req.diary_id) # {}
  /\ req.cred.sig_ok
  /\ req.cred.token.type = "refresh"
  /\ req.cred.token.exp > now
  /\ resp.status = 401

\* What analyze_sentiment returns when it falls back: the text it was given,
\* and no tag counted.
Fallback(content) == [raised |-> FALSE, markup |-> content, pos |-> 0, neg |-> 0]

C6_MissingFieldFallsBack ==
  (/\ analysis.github_token = ConfiguredToken
   /\ analysis.reply.kind = "response"
   /\ analysis.reply.status \in SuccessStatuses
   /\ analysis.reply.json_ok
   /\ analysis.reply.shape \in MissingFieldShapes) =>
    analysis.result = Fallback(analysis.content)

\* The annotation call of this step failed: no credential, no answer, or an
\* answer without the expected field.
AnnotationFailed(a) ==
  \/ a.github_token \in {NoneValue, ""}
  \/ a.reply.kind # "response"
  \/ raise_for_status(a.reply.status)
  \/ ~a.reply.json_ok
  \/ a.reply.shape \in MissingFieldShapes

\* C7: a POST /diaries with a valid payload, and a PUT /diaries/{id} with a
\* valid payload by the owner of the entry, answer 201 / 200 whatever the
\* annotation call did; when it failed the entry is stored with
\* analyzed_content equal to the submitted content and both counts 0.
C7_AnnotationFailureNeverBlocks ==
  [][(/\ DiarySchema_load(req'.content)
      /\ \/ req'.route = "create_diary"
         \/ /\ req'.route = "update_diary"
            /\ \E d \in diary_by_id(req'.diary_id) :
                 d.user_id = req'.cred.token.sub) =>
       /\ resp'.status = (IF req'.route = "create_diary" THEN 201 ELSE 200)
       /\ \E d \in resp'.entry :
            /\ d \in diaries'
            /\ d.content = req'.content
            /\ AnnotationFailed(analysis') =>
                 /\ d.analyzed_content = req'.content
                 /\ d.positive_count = 0
                 /\ d.negative_count = 0]_vars

\* C8: on a protected route the answer to a request without a token is
\* MISSING_TOKEN; else, to a malformed or wrongly signed token, INVALID_TOKEN;
\* else, to an expired token, TOKEN_EXPIRED, revoked or not; else, to a
\* revoked token, TOKEN_REVOKED; and a 401 leaves every table, the issued
\* tokens and the revoked set as they were and returns no data.
C8_FirstFailingCheckDecides ==
  [][req'.route \in ProtectedRoutes =>
       LET c == req'.cred
           signed == c.kind = "jwt" /\ c.sig_ok
       IN /\ c.kind = "none" => resp' = Unauthorized("MISSING_TOKEN")
          /\ (c.kind # "none" /\ ~signed) => resp' = Unauthorized("INVALID_TOKEN")
          /\ (signed /\ c.token.exp <= now) => resp' = Unauthorized("TOKEN_EXPIRED")
          /\ (signed /\ c.token.exp > now /\ c.token.jti \in token_blacklist) =>
               resp' = Unauthorized("TOKEN_REVOKED")
          /\ resp'.status = 401 =>
               UNCHANGED <<users, diaries, tokens, token_blacklist, next_jti,
                           next_id, analysis>>]_vars

\* C8 witness: a token that was logged out and then expired was answered
\* TOKEN_EXPIRED.
C8_Witness ==
  /\ req.route \in ProtectedRoutes
  /\ req.cred.sig_ok
  /\ req.cred.token.jti \in token_blacklist
  /\ req.cred.token.exp <= now
  /\ resp = Unauthorized("TOKEN_EXPIRED")

\* C9: /auth/refresh presented with an unexpired refresh token R answers 200
\* with one new access token of R's identity, unexpired and unrevoked; the
\* revoked set is unchanged and R is still issued, unexpired and unrevoked
\* afterwards; and a protected route never answers 401 to a token minted by
\* /auth/refresh that is unexpired and unrevoked.
C9_RefreshKeepsRefreshToken ==
  [][/\ (/\ PresentsLiveToken
         /\ req'.route = "refresh"
         /\ req'.cred.token.type = "refresh") =>
          /\ resp'.status = 200
          /\ \E m \in resp'.minted :
               /\ resp'.minted = {m}
               /\ m.type = "access"
               /\ m.sub = req'.cred.token.sub
               /\ m.jti # req'.cred.token.jti
               /\ m \in tokens' \ tokens
               /\ m.exp > now'
               /\ m.jti \notin token_blacklist'
          /\ token_blacklist' = token_blacklist
          /\ req'.cred.token \in tokens'
          /\ req'.cred.token.exp > now'
          /\ req'.cred.token.jti \notin token_blacklist'
     /\ (/\ PresentsLiveToken
         /\ req'.route \in ProtectedRoutes
         /\ req'.cred.token.type = "access"
         /\ req'.cred.token.jti >= 3
         /\ req'.cred.token.jti \notin token_blacklist) =>
          resp'.status # 401]_vars

\* C9 witness: the refresh token was presented twice, and the token minted
\* the second time was accepted by /auth/me.
C9_Witness ==
  /\ req.route = "me"
  /\ req.cred.sig_ok
  /\ req.cred.token.jti = 4
  /\ req.cred.token.type = "access"
  /\ next_jti = 5
  /\ resp.status = 200

C11_ListOwnEntriesNewestFirst ==
  [][(req'.route = "list_diaries" /\ resp'.status = 200) =>
       LET items == resp'.listing.items
           row(i) == CHOOSE d \in diaries : d.id = items[i]
       IN /\ \A i \in DOMAIN items :
               /\ \E d \in diaries : d.id = items[i]
               /\ row(i).user_id = req'.cred.token.sub
          /\ \A i \in 1..(Len(items) - 1) :
               row(i).created_at >= row(i + 1).created_at]_vars

\* C11 witness: user 1 was listed three entries created at two different
\* times while user 2 has entries too.
C11_Witness ==
  /\ req.route = "list_diaries"
  /\ req.cred.token.sub = 1
  /\ Len(resp.listing.items) = 3
  /\ resp.listing.items[1] = 4
  /\ \E d \in diaries : d.user_id = 2

\* C12: GET /diaries/stats answers user U with the number of U's entries, of
\* those with more positive than negative tags, of those with more negative
\* than positive tags and of those with equal counts; the three classes sum
\* to the total, and entries of other users do not enter the result.
C12_StatsOverOwnEntries ==
  [][(req'.route = "get_stats" /\ resp'.status = 200) =>
       LET own == {d \in diaries : d.user_id = req'.cred.token.sub}
           st == resp'.stats
       IN /\ st.total_entries = Cardinality(own)
          /\ st.positive_entries =
               Cardinality({d \in own : d.positive_count > d.negative_count})
          /\ st.negative_entries =
               Cardinality({d \in own : d.negative_count > d.positive_count})
          /\ st.neutral_entries =
               Cardinality({d \in own : d.negative_count = d.positive_count})
          /\ st.positive_entries + st.negative_entries + st.neutral_entries
               = st.total_entries]_vars

\* C12 witness: user 1 has one entry of each class and was answered 3, 1, 1,
\* 1 while user 2 has a positive and a neutral entry.
C12_Witness ==
  /\ req.route = "get_stats"
  /\ req.cred.token.sub = 1
  /\ resp.stats = [total_entries |-> 3, positive_entries |-> 1,
                   negative_entries |-> 1, neutral_entries |-> 1]
  /\ Cardinality({d \in diaries : d.user_id = 2}) = 2

\* C13: the step that deletes a user leaves no entry owned by that user and
\* leaves the entries of the other users as they were, and a GET on the id of
\* an entry removed that way is answered 404.
C13_UserDeleteCascades ==
  [][/\ req'.route = "delete_user" =>
          /\ users' \subseteq users
          /\ Cardinality(users \ users') = 1
          /\ \A u \in users \ users' :
               /\ \A d \in diaries' : d.user_id # u.id
               /\ diaries' = {d \in diaries : d.user_id # u.id}
     /\ (/\ req'.route = "get_diary"
         /\ \E e \in ListingPool : e.id = req'.diary_id /\ e \notin diaries) =>
          resp' = Response(404, "DIARY_NOT_FOUND")]_vars

\* C13 witness: user 2, who had two entries, was deleted; the three entries
\* of user 1 are stored, and a GET of a removed entry by user 1 was answered
\* 404.
C13_Witness ==
  /\ users = {UserA}
  /\ diaries = {d \in ListingPool : d.user_id = 1}
  /\ req.route = "get_diary"
  /\ req.diary_id = 5
  /\ req.cred.token.sub = 1
  /\ resp = Response(404, "DIARY_NOT_FOUND")

\* C14: a login whose payload passes the schema is answered 200 with one
\* access and one refresh token of the user exactly when a user is stored
\* under the trimmed, lowercased email and the submitted password verifies
\* against that user's hash; otherwise the answer is the one response 401
\* INVALID_CREDENTIALS, the same for an unknown email and a wrong password,
\* and no token is issued.
C14_LoginExactlyOnMatch ==
  [][(req'.route = "login" /\ resp'.status # 400) =>
       LET matching == {u \in users :
                          /\ u.email = lower(strip(req'.email))
                          /\ u.password_hash.digest = req'.password}
       IN IF matching # {}
            THEN /\ resp'.status = 200
                 /\ \E u \in matching :
                      /\ {t.type : t \in resp'.minted} = {"access", "refresh"}
                      /\ Cardinality(resp'.minted) = 2
                      /\ \A t \in resp'.minted : t.sub = u.id /\ t \notin tokens
                 /\ tokens' = tokens \cup resp'.minted
            ELSE /\ resp' = Response(401, "INVALID_CREDENTIALS")
                 /\ tokens' = tokens]_vars

\* C14 witness: with one user stored, a login under an email no user has
\* was answered 401 INVALID_CREDENTIALS after an earlier login had issued
\* tokens.
C14_Witness ==
  /\ Cardinality(users) = 1
  /\ req.route = "login"
  /\ \A u \in users : u.email # lower(strip(req.email))
  /\ resp = Response(401, "INVALID_CREDENTIALS")
  /\ tokens # {}

\* C15: a request answered with a status from 400 to 499 leaves the user
\* records, the diary entries and the revoked-token set as they were.
C15_ClientErrorWritesNothing ==
  [][(resp'.status >= 400 /\ resp'.status <= 499) =>
       /\ users' = users
       /\ diaries' = diaries
       /\ token_blacklist' = token_blacklist]_vars

\* C15 witness: with two users, a stored entry and a revoked token, a
\* registration was refused with EMAIL_EXISTS.
C15_Witness ==
  /\ Cardinality(users) = 2
  /\ diaries # {}
  /\ token_blacklist # {}
  /\ req.route = "register"
  /\ resp = Response(400, "EMAIL_EXISTS")

\* C16: when two registrations for the same normalized email have both
\* passed the lookup and both have committed, one was answered 201 and the
\* other 400 EMAIL_EXISTS, and one user is stored under that email; a commit
\* is never answered with a 5xx status.
C16_RacingRegistrationsOneWins ==
  /\ \A w \in Workers : registering[w].resp.status < 500
  /\ \A w, v \in Workers :
       (/\ w # v
        /\ registering[w].pc = "done"
        /\ registering[v].pc = "done"
        /\ registering[w].email = registering[v].email) =>
         /\ {registering[w].resp, registering[v].resp} =
              {Response(201, ""), Response(400, "EMAIL_EXISTS")}
         /\ Cardinality(users_by_email(registering[w].email)) = 1

\* C16 witness: both workers passed the lookup for a@x.io, one sent as
\* "A@x.io", and both have committed.
C16_Witness ==
  /\ registering[1].pc = "done"
  /\ registering[2].pc = "done"
  /\ registering[1].email = Str_a_x_io
  /\ registering[2].email = Str_a_x_io
  /\ registering[2].resp.status = 201
  /\ req.email = Str_a_x_io
  /\ resp = Response(400, "EMAIL_EXISTS")

\* C17: for a caller with N entries, a page size p (10 when per_page is
\* absent, otherwise the smaller of per_page and 100, for per_page >= 1) and
\* a page k >= 1 (1 when page is absent), the listing reports total N,
\* per_page p, page k, pages ceil(N / p), and holds min(p, max(0, N-(k-1)p))
\* items, never more than 100.
C17_PaginationArithmetic ==
  [][(/\ req'.route = "list_diaries"
      /\ resp'.status = 200
      /\ req'.page.kind \in {"absent", "int"}
      /\ req'.page.kind = "int" => req'.page.value >= 1
      /\ req'.per_page.kind \in {"absent", "int"}
      /\ req'.per_page.kind = "int" => req'.per_page.value >= 1) =>
       LET N == Cardinality({d \in diaries : d.user_id = req'.cred.token.sub})
           k == IF req'.page.kind = "absent" THEN 1 ELSE req'.page.value
           p == IF req'.per_page.kind = "absent" THEN 10
                ELSE IF req'.per_page.value <= 100 THEN req'.per_page.value
                ELSE 100
           rest == N - (k - 1) * p
           l == resp'.listing
       IN /\ l.total = N
          /\ l.per_page = p
          /\ l.page = k
          /\ l.pages = (N + p - 1) \div p
          /\ Len(l.items) = IF rest <= 0 THEN 0 ELSE IF rest <= p THEN rest ELSE p
          /\ Len(l.items) <= 100]_vars

\* C17 witness: the second page of 15 entries under the default page size
\* holds 5 items of 2 pages.
C17_Witness ==
  /\ req.route = "list_diaries"
  /\ req.page = IntArg(2)
  /\ req.per_page = Absent
  /\ resp.status = 200
  /\ resp.listing.total = 15
  /\ resp.listing.pages = 2
  /\ resp.listing.per_page = 10
  /\ Len(resp.listing.items) = 5

ReachedValidation ==
  /\ req'.route \in {"create_diary", "update_diary"}
  /\ resp'.status \notin {401, 403, 404}

SentimentOf(p, n) ==
  CASE p > n -> "positive"
    [] n > p -> "negative"
    [] p = n -> "neutral"

\* The class get_stats gives the one entry of its caller.
StatsClass(stats) ==
  CASE stats.positive_entries = 1 -> "positive"
    [] stats.negative_entries = 1 -> "negative"
    [] stats.neutral_entries = 1 -> "neutral"
    [] OTHER -> ""

\* C19: for all counts p, n >= 0 the class is positive iff p > n, negative
\* iff n > p and neutral iff p = n; get_sentiment_summary(p, n), get_sentiment
\* of an entry with those counts and the class under which get_stats counts
\* that entry are the same.
C19_SentimentClasses ==
  [][/\ req'.route = "get_sentiment_summary" =>
          resp'.sentiment = SentimentOf(req'.positive_count, req'.negative_count)
     /\ req'.route = "to_dict" =>
          \A d \in resp'.entry :
            resp'.sentiment = SentimentOf(d.positive_count, d.negative_count)
     /\ (req'.route = "get_stats" /\ resp'.status = 200) =>
          \A d \in diaries :
            d.user_id = req'.cred.token.sub =>
              /\ resp'.stats.positive_entries + resp'.stats.negative_entries
                   + resp'.stats.neutral_entries = 1
              /\ StatsClass(resp'.stats)
                   = SentimentOf(d.positive_count, d.negative_count)
              /\ StatsClass(resp'.stats) = get_sentiment(d)
              /\ StatsClass(resp'.stats)
                   = get_sentiment_summary(d.positive_count, d.negative_count)]_vars

\* C19 witness: get_sentiment_summary(0, 0) gave neutral while the stored
\* entry had equal counts above 0.
C19_Witness ==
  /\ req.route = "get_sentiment_summary"
  /\ req.positive_count = 0
  /\ req.negative_count = 0
  /\ resp.sentiment = "neutral"
  /\ \E d \in diaries : d.positive_count = 2 /\ d.negative_count = 2

\* The five rules in the order of the policy, and the reason of each.
Holds(rule, password) ==
  CASE rule = 1 -> Len(password) >= 8
    [] rule = 2 -> \E i \in 1..Len(password) : password[i] \in UpperChars
    [] rule = 3 -> \E i \in 1..Len(password) : password[i] \in LowerChars
    [] rule = 4 -> \E i \in 1..Len(password) : password[i] \in DigitChars
    [] rule = 5 -> \E i \in 1..Len(password) : password[i] \in SymbolChars

ReasonOf(rule) ==
  CASE rule = 1 -> "Password must be at least 8 characters long"
    [] rule = 2 -> "Password must contain at least one uppercase letter"
    [] rule = 3 -> "Password must contain at least one lowercase letter"
    [] rule = 4 -> "Password must contain at least one number"
    [] rule = 5 -> "Password must contain at least one special character"

FirstFailing(password) ==
  CHOOSE rule \in 1..5 :
    /\ ~Holds(rule, password)
    /\ \A earlier \in 1..(rule - 1) : Holds(earlier, password)

InvalidDiaryBody(content) ==
  \/ Len(content) = 0
  \/ \A i \in 1..Len(content) : content[i] \in Whitespace
  \/ Len(content) > 10000

\* C21: a POST /diaries or PUT /diaries/{id} that presents a valid access
\* token and a body failing validation is answered 400 and changes no
\* entry, whatever entry id the PUT addresses.
C21_InvalidBodyAlways400 ==
  [][(/\ req'.route \in {"create_diary", "update_diary"}
      /\ resp'.status # 401
      /\ InvalidDiaryBody(req'.content)) =>
       /\ resp'.status = 400
       /\ diaries' = diaries
       /\ users' = users
       /\ token_blacklist' = token_blacklist]_vars

\* C22: a login for a user whose stored password hash is malformed is
\* answered 401 INVALID_CREDENTIALS, issues no token and is not answered
\* with a server error.
C22_MalformedHashIsFailedLogin ==
  [][(/\ req'.route = "login"
      /\ \E u \in users : u.email = lower(strip(req'.email))
                          /\ u.password_hash = MalformedHash) =>
       /\ resp' = Response(401, "INVALID_CREDENTIALS")
       /\ tokens' = tokens]_vars

\* The service answered 2xx with a JSON document holding a content text.
AnnotationAnswered ==
  /\ analysis.github_token = ConfiguredToken
  /\ analysis.reply.kind = "response"
  /\ analysis.reply.status \in SuccessStatuses
  /\ analysis.reply.json_ok
  /\ analysis.reply.shape = "content"

\* The length of the language tag after an opening fence: the letters up to
\* the end of the fence's line, 0 when the line holds anything else.
FenceTagLen(t) ==
  IF \E k \in 4..Len(t) : t[k] = "\n" /\ \A j \in 4..(k - 1) : t[j] \in Letters
    THEN (CHOOSE k \in 4..Len(t) :
            t[k] = "\n" /\ \A j \in 4..(k - 1) : t[j] \in Letters) - 4
    ELSE 0

\* The body between an opening fence, its tag, and a closing fence.
FencedBody(t) == strip(SubSeq(t, 4 + FenceTagLen(t), Len(t) - 3))

\* C23: an answer wrapped in an opening fence, with or without a language
\* tag of any name, and a closing fence comes back as the fenced body, and
\* an answer without fences comes back unchanged apart from outer whitespace.
C23_FenceStrippedWithAnyTag ==
  AnnotationAnswered =>
    LET t == strip(analysis.reply.text)
    IN /\ (Len(t) >= 6 /\ startswith(t, Fence) /\ endswith(t, Fence)) =>
            analysis.result.markup = FencedBody(t)
       /\ (~startswith(t, Fence) /\ ~endswith(t, Fence)) =>
            analysis.result.markup = t

\* C24: on an answered annotation, the two counts are the numbers of
\* places of the returned markup that hold the positive opening tag and the
\* negative opening tag, nested and repeated tags each counted, and markup
\* without tags counts (0, 0).
C24_CountsAreLiteralOccurrences ==
  AnnotationAnswered =>
    /\ ~analysis.result.raised
    /\ analysis.result.pos =
         Cardinality({i \in 1..Len(analysis.result.markup) :
                        analysis.result.markup[i] = PosTag})
    /\ analysis.result.neg =
         Cardinality({i \in 1..Len(analysis.result.markup) :
                        analysis.result.markup[i] = NegTag})

\* C24 witness: a positive tag nested in a positive tag was counted twice.
C24_Witness ==
  /\ AnnotationAnswered
  /\ analysis.result.markup = <<PosTag, PosTag, "x", EndTag, EndTag>>
  /\ analysis.result.pos = 2
  /\ analysis.result.neg = 0

\* What a PUT answered 200 does to the stored entries, apart from
\* updated_at: the addressed entry keeps id, owner and created_at, takes the
\* submitted content and the markup and counts of the annotation of that
\* content, and every other entry stays as it was.
UpdateReplacesFields(old, new) ==
  /\ old.id = req'.diary_id
  /\ new.id = old.id
  /\ new.user_id = old.user_id
  /\ new.created_at = old.created_at
  /\ new.content = req'.content
  /\ analysis'.content = req'.content
  /\ new.analyzed_content = analysis'.result.markup
  /\ new.positive_count = analysis'.result.pos
  /\ new.negative_count = analysis'.result.neg
  /\ diaries' \ {new} = diaries \ {old}
  /\ resp'.entry = {new}

FieldsChanged(old, new) ==
  \/ new.content # old.content
  \/ new.analyzed_content # old.analyzed_content
  \/ new.positive_count # old.positive_count
  \/ new.negative_count # old.negative_count

\* C25: a PUT answered 200 replaces content, analyzed_content and both
\* counts by the submitted content and its annotation, keeps id, owner and
\* created_at and every other entry, and sets updated_at to the time of the
\* request when one of the four fields changed; a PUT that changes none of
\* them leaves updated_at as it was.
C25_UpdateReplacesAndStampsOnChange ==
  [][(req'.route = "update_diary" /\ resp'.status = 200) =>
       \E old \in diaries, new \in diaries' :
         /\ UpdateReplacesFields(old, new)
         /\ new.updated_at =
              IF FieldsChanged(old, new) THEN now' ELSE old.updated_at]_vars

\* C25 as stated: every PUT answered 200 sets updated_at to the time of the
\* request.
C25_UpdateReplacesAndStamps ==
  [][(req'.route = "update_diary" /\ resp'.status = 200) =>
       \E old \in diaries, new \in diaries' :
         /\ UpdateReplacesFields(old, new)
         /\ new.updated_at = now']_vars

\* C25 witness: after a clock step the owner's PUT replaced a tagged entry
\* counted (1, 0) by an untagged text counted (0, 0), stamped with the new
\* time, beside the other user's entry.
C25_Witness ==
  /\ req.route = "update_diary"
  /\ resp.status = 200
  /\ now = 1
  /\ \E d \in resp.entry :
       /\ d \in diaries
       /\ d.id = 1
       /\ d.created_at = 0
       /\ d.updated_at = 1
       /\ d.positive_count = 0
       /\ d.analyzed_content = d.content
  /\ Entry(2, 2, 0, 0, 1) \in diaries

\* What the DELETE answered 200 does, and what the requests after it see:
\* the addressed entry, which the caller owned, is removed, no other entry
\* and no user is changed; a request on an id no entry has is answered 404;
\* a list holds stored entries only and the stats count the stored entries
\* of the caller.
DeleteRemovesEntry ==
  /\ (req'.route = "delete_diary" /\ resp'.status = 200) =>
       /\ \E d \in diaries :
            /\ d.id = req'.diary_id
            /\ d.user_id = req'.cred.token.sub
            /\ diaries' = diaries \ {d}
       /\ \A d \in diaries' : d.id # req'.diary_id
       /\ req'.diary_id \in deleted'
       /\ users' = users
  /\ (req'.route \in EntryRoutes /\ diary_by_id(req'.diary_id) = {}) =>
       resp'.status = 404
  /\ (req'.route = "list_diaries" /\ resp'.status = 200) =>
       \A i \in DOMAIN resp'.listing.items :
         \E d \in diaries : d.id = resp'.listing.items[i]
  /\ (req'.route = "get_stats" /\ resp'.status = 200) =>
       resp'.stats.total_entries =
         Cardinality({d \in diaries : d.user_id = req'.cred.token.sub})

\* C26: a DELETE answered 200 removes the entry and changes no other entry
\* and no user; the entry is in no later list or stats; requests on its id
\* are answered 404 as long as no entry is stored under the id, and on
\* PostgreSQL no entry is ever stored under it again.
C26_DeletedUntilIdReused ==
  [][/\ DeleteRemovesEntry
     /\ dialect = "postgresql" =>
          /\ \A d \in diaries' : d.id \notin deleted'
          /\ (req'.route \in EntryRoutes /\ req'.diary_id \in deleted) =>
               resp'.status = 404]_vars

\* C26 as stated: after a DELETE answered 200 every later GET, PUT or DELETE
\* on the id is answered 404.
C26_DeletedForGood ==
  [][/\ DeleteRemovesEntry
     /\ (req'.route \in EntryRoutes /\ req'.diary_id \in deleted) =>
          resp'.status = 404]_vars

\* C26 witness: on PostgreSQL, after entry 1 was created and deleted and
\* entry 2 created, a GET of id 1 by its former owner was answered 404.
C26_Witness ==
  /\ dialect = "postgresql"
  /\ next_id = 3
  /\ {d.id : d \in diaries} = {2}
  /\ deleted = {1}
  /\ req.route = "get_diary"
  /\ req.diary_id = 1
  /\ resp = Response(404, "DIARY_NOT_FOUND")

\* C27: a logout answered 200 adds the jti of the presented access token to
\* the revoked set and changes nothing else, and any other answer of logout
\* leaves the set as it was; so an unexpired refresh token that was not itself
\* revoked is still answered 200 at /auth/refresh after the logout, and an
\* unexpired access token other than the logged-out one, minted before or
\* after the logout, is not answered 401 on a protected route.
C27_LogoutRevokesOnlyPresentedToken ==
  [][/\ (req'.route = "logout" /\ resp'.status = 200) =>
          /\ req'.cred.token.type = "access"
          /\ token_blacklist' = token_blacklist \cup {req'.cred.token.jti}
          /\ UNCHANGED <<users, diaries, tokens, next_jti, next_id>>
     /\ (req'.route = "logout" /\ resp'.status # 200) =>
          token_blacklist' = token_blacklist
     /\ (/\ PresentsLiveToken
         /\ req'.route = "refresh"
         /\ req'.cred.token.type = "refresh"
         /\ token_blacklist # {}
         /\ req'.cred.token.jti \notin token_blacklist) =>
          resp'.status = 200
     /\ (/\ PresentsLiveToken
         /\ req'.route \in ProtectedRoutes
         /\ req'.cred.token.type = "access"
         /\ \E t \in tokens : /\ t.sub = req'.cred.token.sub
                              /\ t.jti # req'.cred.token.jti
                              /\ t.jti \in token_blacklist
         /\ req'.cred.token.jti \notin token_blacklist) =>
          resp'.status # 401]_vars

\* C27 witness: the access token of the login was logged out, the refresh
\* token of the same login then minted access token 3, and the entry list
\* was answered 200 to that token while token 1 alone is revoked.
C27_Witness ==
  /\ token_blacklist = {1}
  /\ req.route = "list_diaries"
  /\ req.cred.sig_ok
  /\ req.cred.token.jti = 3
  /\ req.cred.token.type = "access"
  /\ resp.status = 200

\* The four fields an update writes.
FourFields(d) ==
  <<d.content, d.analyzed_content, d.positive_count, d.negative_count>>

\* C28: a PUT answered 200 leaves the entry with content, markup and counts
\* that are all those of this request, or all as they were stored before the
\* commit (which, the same holding for every earlier commit, were written
\* together by one request); so no stored entry combines the content of one
\* update with the markup or a count computed for another, however the
\* requests interleave.
C28_UpdateFieldsFromOneRequest ==
  [][(req'.route = "update_diary" /\ resp'.status = 200) =>
       \A d \in diaries' :
         d.id = req'.diary_id =>
           \/ FourFields(d) = <<req'.content, analysis'.result.markup,
                                analysis'.result.pos, analysis'.result.neg>>
           \/ \E e \in diaries : e.id = d.id /\ FourFields(e) = FourFields(d)]_vars

\* C29: the owner id of every stored entry is the id of a stored user, also
\* after a user was deleted and a token issued to that user was presented to
\* POST /diaries.
C29_EveryEntryHasItsOwner ==
  \A d \in diaries : \E u \in users : u.id = d.user_id

\* C30: a POST /diaries answered 201 stores one new entry whose owner is the
\* identity of the presented access token; a POST whose body carries a field
\* besides content is answered 400 and stores nothing; and an entry that is
\* stored before and after a step has the same owner.
C30_OwnerIsTheCaller ==
  [][/\ (req'.route = "create_diary" /\ resp'.status = 201) =>
          /\ req'.extra = {}
          /\ \E d \in diaries' \ diaries :
               /\ diaries' = diaries \cup {d}
               /\ d.user_id = req'.cred.token.sub
               /\ resp'.entry = {d}
     /\ (/\ req'.route = "create_diary"
         /\ req'.extra # {}
         /\ resp'.status # 401) =>
          /\ resp' = Response(400, "VALIDATION_ERROR")
          /\ diaries' = diaries
     /\ \A d \in diaries : \A e \in diaries' :
          e.id = d.id => e.user_id = d.user_id]_vars

\* C30 witness: user 1 has stored an entry, and a POST by user 1 whose body
\* names user 2 as the owner was answered 400.
C30_Witness ==
  /\ \E d \in diaries : d.user_id = 1
  /\ \A d \in diaries : d.user_id = 1
  /\ req.route = "create_diary"
  /\ req.cred.token.sub = 1
  /\ req.extra = {<<"user_id", 2>>}
  /\ resp = Response(400, "VALIDATION_ERROR")

====
